---- MODULE Spec2Model ----
(***************************************************************************)
(* A model of brainvoyagertools: readers/writers for the BrainVoyager text *)
(* formats .ctr, .mdm, .sdm, .prt and .voi.  File contents are strings;    *)
(* the formatters build them and the loaders take them apart character by  *)
(* character, as the Python code does.                                      *)
(***************************************************************************)
EXTENDS Integers, Sequences, FiniteSets, TLC

VARIABLES ctr, ctr_file, ctr_call,
          mdm, mdm_file, mdm_call, mdm_built,
          sdm, sdm_disk, sdm_call, sdm_log,
          prt, prt_file, prt_call, prt_built,
          voi, voi_file, voi_call, voi_built

vars == <<ctr, ctr_file, ctr_call, mdm, mdm_file, mdm_call, mdm_built,
          sdm, sdm_disk, sdm_call, sdm_log,
          prt, prt_file, prt_call, prt_built, voi, voi_file, voi_call, voi_built>>

ctr_vars == <<ctr, ctr_file, ctr_call>>
mdm_vars == <<mdm, mdm_file, mdm_call, mdm_built>>
sdm_vars == <<sdm, sdm_disk, sdm_call, sdm_log>>

prt_vars == <<prt, prt_file, prt_call, prt_built>>
voi_vars == <<voi, voi_file, voi_call, voi_built>>

not_ctr == <<mdm_vars, sdm_vars, prt_vars, voi_vars>>
not_mdm == <<ctr_vars, sdm_vars, prt_vars, voi_vars>>
not_sdm == <<ctr_vars, mdm_vars, prt_vars, voi_vars>>
not_prt == <<ctr_vars, mdm_vars, sdm_vars, voi_vars>>
not_voi == <<ctr_vars, mdm_vars, sdm_vars, prt_vars>>

(***************************************************************************)
(* Bounds of the model.                                                    *)
(***************************************************************************)
MaxContrasts == 3
MaxStudies == 2
MaxPredictors == 4
MaxConditions == 2
MaxVois == 2
MaxVtcs == 1
MaxFilePredictors == 1
MaxTime == 10000
MaxCut == 5
MaxSavedStudies == 8

(***************************************************************************)
(* Python's str and list operations (0-based, half-open slices).           *)
(***************************************************************************)
Min(a, b) == IF a < b THEN a ELSE b
Max(a, b) == IF a > b THEN a ELSE b

\* s[i] for 0 <= i < len(s)
CharAt(s, i) == SubSeq(s, i + 1, i + 1)

\* s[a:b] with 0 <= a, 0 <= b
Slice(s, a, b) == IF a >= Min(b, Len(s)) THEN SubSeq(s, 1, 0)
                  ELSE SubSeq(s, a + 1, Min(b, Len(s)))

\* s[a:]
SliceFrom(s, a) == Slice(s, a, Len(s))

\* s[:k], k possibly negative (counted from the end)
SliceTo(s, k) == IF k >= 0 THEN Slice(s, 0, k) ELSE Slice(s, 0, Max(Len(s) + k, 0))

StartsWith(s, p) == Len(s) >= Len(p) /\ SubSeq(s, 1, Len(p)) = p

Whitespace == {" ", "\t", "\n", "\r", "\f"}

RECURSIVE LStripIdx(_, _, _)
\* index (0-based) of the first character of s, from i on, that is not in cs
LStripIdx(s, cs, i) ==
    IF i < Len(s) /\ CharAt(s, i) \in cs THEN LStripIdx(s, cs, i + 1) ELSE i

RECURSIVE RStripIdx(_, _, _)
\* one past the last character of s before j that is not in cs
RStripIdx(s, cs, j) ==
    IF j > 0 /\ CharAt(s, j - 1) \in cs THEN RStripIdx(s, cs, j - 1) ELSE j

\* s.strip(cs)
StripChars(s, cs) ==
    LET a == LStripIdx(s, cs, 0)
        b == RStripIdx(s, cs, Len(s))
    IN IF a >= b THEN "" ELSE Slice(s, a, b)

\* s.strip()
Strip(s) == StripChars(s, Whitespace)

RECURSIVE FindFrom(_, _, _)
\* s.find(c, i) for a one-character c; -1 when absent
FindFrom(s, c, i) ==
    IF i >= Len(s) THEN -1
    ELSE IF CharAt(s, i) = c THEN i ELSE FindFrom(s, c, i + 1)

RECURSIVE SplitFrom(_, _, _)
SplitFrom(s, c, i) ==
    LET j == FindFrom(s, c, i)
    IN IF j < 0 THEN <<SliceFrom(s, i)>>
       ELSE <<Slice(s, i, j)>> \o SplitFrom(s, c, j + 1)

\* s.split(c) for a one-character separator c
Split(s, c) == SplitFrom(s, c, 0)

\* s.split(c, 1)
Split1(s, c) ==
    LET j == FindFrom(s, c, 0)
    IN IF j < 0 THEN <<s>> ELSE <<Slice(s, 0, j), SliceFrom(s, j + 1)>>

RECURSIVE FindStr(_, _, _)
\* s.find(p, i) for a non-empty string p; -1 when absent
FindStr(s, p, i) ==
    IF i + Len(p) > Len(s) THEN -1
    ELSE IF SubSeq(s, i + 1, i + Len(p)) = p THEN i ELSE FindStr(s, p, i + 1)

RECURSIVE SplitStrFrom(_, _, _)
SplitStrFrom(s, p, i) ==
    LET j == FindStr(s, p, i)
    IN IF j < 0 THEN <<SliceFrom(s, i)>>
       ELSE <<Slice(s, i, j)>> \o SplitStrFrom(s, p, j + Len(p))

\* s.split(p) for a separator p of any length
SplitStr(s, p) == SplitStrFrom(s, p, 0)

RECURSIVE Join(_, _)
\* sep.join(parts)
Join(sep, parts) ==
    IF Len(parts) = 0 THEN ""
    ELSE IF Len(parts) = 1 THEN parts[1]
    ELSE parts[1] \o sep \o Join(sep, Tail(parts))

RECURSIVE Spaces(_)
Spaces(n) == IF n <= 0 THEN "" ELSE " " \o Spaces(n - 1)

\* s.ljust(w), s.rjust(w)
LJust(s, w) == s \o Spaces(w - Len(s))
RJust(s, w) == Spaces(w - Len(s)) \o s

RECURSIVE ReadLinesFrom(_, _)
ReadLinesFrom(s, i) ==
    IF i >= Len(s) THEN <<>>
    ELSE LET j == FindFrom(s, "\n", i)
         IN IF j < 0 THEN <<SliceFrom(s, i)>>
            ELSE <<Slice(s, i, j + 1)>> \o ReadLinesFrom(s, j + 1)

\* f.readlines(): the lines of a text, each with its line break
ReadLines(s) == ReadLinesFrom(s, 0)

RECURSIVE FirstLineWith(_, _, _)
\* the counter the loaders' "for counter, line in enumerate(lines): if
\* line.startswith(p): break" ends with, for a non-empty list of lines
FirstLineWith(lines, p, i) ==
    IF i >= Len(lines) - 1 \/ StartsWith(lines[i + 1], p) THEN i
    ELSE FirstLineWith(lines, p, i + 1)

\* [line[i:i+w] for i in range(0, len(line), w) if line[i].strip("\r\n") != ""]
Cells(line, w) ==
    LET starts == {i \in 0..(Len(line) - 1) :
                      i % w = 0 /\ CharAt(line, i) \notin {"\r", "\n"}}
        nth(k) == CHOOSE i \in starts : Cardinality({j \in starts : j < i}) = k - 1
    IN [k \in 1..Cardinality(starts) |-> Slice(line, nth(k), nth(k) + w)]

Digits == <<"0", "1", "2", "3", "4", "5", "6", "7", "8", "9">>
DigitSet == {Digits[i] : i \in 1..10}
DigitVal(c) == (CHOOSE i \in 1..10 : Digits[i] = c) - 1

RECURSIVE NatStr(_)
NatStr(n) == IF n < 10 THEN Digits[n + 1] ELSE NatStr(n \div 10) \o Digits[(n % 10) + 1]

\* str(n) for an int n
Str(n) == IF n < 0 THEN "-" \o NatStr(-n) ELSE NatStr(n)

RECURSIVE AllDigits(_, _)
AllDigits(s, i) == i >= Len(s) \/ (CharAt(s, i) \in DigitSet /\ AllDigits(s, i + 1))

RECURSIVE DigitsVal(_, _, _)
DigitsVal(s, i, acc) ==
    IF i >= Len(s) THEN acc ELSE DigitsVal(s, i + 1, acc * 10 + DigitVal(CharAt(s, i)))

\* whether int(s) succeeds: optional blanks, optional sign, one or more digits
IsInt(s) ==
    LET t == Strip(s)
        u == IF t # "" /\ CharAt(t, 0) \in {"+", "-"} THEN SliceFrom(t, 1) ELSE t
    IN u # "" /\ AllDigits(u, 0)

\* int(s), when IsInt(s)
ToInt(s) ==
    LET t == Strip(s)
        neg == t # "" /\ CharAt(t, 0) = "-"
        u == IF t # "" /\ CharAt(t, 0) \in {"+", "-"} THEN SliceFrom(t, 1) ELSE t
    IN IF neg THEN 0 - DigitsVal(u, 0, 0) ELSE DigitsVal(u, 0, 0)

\* [i for i in line.split(" ") if i]
Tokens(line) == SelectSeq(Split(line, " "), LAMBDA x : x # "")

\* a float that is no whole number, kept as its literal
FloatV(x) == [float |-> x]

\* whether float(x) succeeds for a token that int(x) refuses: digits with
\* one decimal point, after an optional sign
IsFloat(x) ==
    LET u == IF x # "" /\ CharAt(x, 0) \in {"+", "-"} THEN SliceFrom(x, 1) ELSE x
        parts == Split(u, ".")
    IN /\ Len(parts) = 2
       /\ parts[1] \o parts[2] # ""
       /\ AllDigits(parts[1], 0)
       /\ AllDigits(parts[2], 0)

\* float(s) for the texts the formatters write: a whole number is kept as
\* the number, as 1 == 1.0 and both are written alike
ToFloat(s) ==
    LET t == Strip(s)
        parts == Split(t, ".")
    IN IF IsInt(t) THEN ToInt(t)
       ELSE IF AllDigits(parts[2], 0) /\ DigitsVal(parts[2], 0, 0) = 0
            THEN ToInt(parts[1])
            ELSE FloatV(t)

\* "{0:f}".format(y) for a whole number y
FormatFloat(y) == Str(y) \o ".000000"

(***************************************************************************)
(* Headers: an OrderedDict is a sequence of <<key, value>>; a value is an  *)
(* int, a str or a list of int.                                            *)
(***************************************************************************)
IntV(n) == [t |-> "int", v |-> n]
StrV(s) == [t |-> "str", v |-> s]
ListV(l) == [t |-> "list", v |-> l]

IsIntV(x, n) == x.t = "int" /\ x.v = n
IsStrV(x, s) == x.t = "str" /\ x.v = s

HasKey(h, k) == \E i \in 1..Len(h) : h[i][1] = k
KeyIdx(h, k) == CHOOSE i \in 1..Len(h) : h[i][1] = k

\* h[k]
Get(h, k) == h[KeyIdx(h, k)][2]

\* h[k] = v: in place when k is held, appended otherwise
Put(h, k, v) == IF HasKey(h, k) THEN [h EXCEPT ![KeyIdx(h, k)] = <<k, v>>]
                ELSE Append(h, <<k, v>>)

\* "{0}".format(v) of a header value
FormatValue(x) ==
    IF x.t = "int" THEN Str(x.v)
    ELSE IF x.t = "str" THEN x.v
    ELSE "[" \o Join(", ", [i \in 1..Len(x.v) |-> Str(x.v[i])]) \o "]"

NoFile == [exists |-> FALSE]
File(text) == [exists |-> TRUE, text |-> text]

(***************************************************************************)
(* ctr: contrasts definitions.                                             *)
(***************************************************************************)
\* Contrast(name, data)
Contrast(name, data) == [name |-> name, data |-> data]

ContrastInputs ==
    {Contrast(n, d) : n \in {"a", "b"}, d \in {<<1>>, <<1, -1>>, <<0, 1>>, <<1, 0, -1>>}}

\* ContrastsDefinition.clear
ctr_clear ==
    [header |-> << <<"FileVersion", IntV(1)>>,
                   <<"NrOfContrasts", IntV(0)>>,
                   <<"NrOfValues", IntV(0)>> >>,
     contrasts |-> <<>>]

\* the length test as it would be if it compared with NrOfContrasts
ctr_length_differs_from_count(d, contrast) ==
    ~IsIntV(Get(d.header, "NrOfContrasts"), 0)
    /\ ~IsIntV(Get(d.header, "NrOfContrasts"), Len(contrast.data))

\* the length test of add_contrast that raises ValueError
ctr_length_differs(d, contrast) ==
    ~IsIntV(Get(d.header, "NrOfContrasts"), 0)
    /\ ~IsIntV(Get(d.header, "NrOfValues"), Len(contrast.data))

\* ContrastsDefinition.add_contrast
ctr_add_contrast(d, contrast) ==
    LET h1 == IF IsIntV(Get(d.header, "NrOfContrasts"), 0)
              THEN Put(d.header, "NrOfValues", IntV(Len(contrast.data)))
              ELSE d.header
        h2 == Put(h1, "NrOfContrasts", IntV(Get(h1, "NrOfContrasts").v + 1))
    IN IF ctr_length_differs(d, contrast)
       THEN [doc |-> d, exc |-> "ValueError"]
       ELSE [doc |-> [d EXCEPT !.header = h2], exc |-> "none"]

\* the column the header keys of a .ctr file are padded to by save
CtrKeyWidth == 22

\* the column load cuts the header lines of a .ctr file at
CtrCutColumn == 16

\* the width of one value in the data lines of a .ctr file
CtrCellWidth == 4

\* ContrastsDefinition._format_header
ctr_format_header(d) ==
    Join("", [i \in 1..Len(d.header) |->
        LJust(d.header[i][1] \o ":", CtrKeyWidth) \o FormatValue(d.header[i][2])
        \o (IF i - 1 < Len(d.header) - 1 THEN "\n" ELSE "")])

\* ContrastsDefinition._format_names
ctr_format_names(d) ==
    "\"" \o Join("\" \"", [i \in 1..Len(d.contrasts) |-> d.contrasts[i].name])
    \o "\""

\* ContrastsDefinition.data: one column per contrast; with no contrast the
\* loop never binds the result and the return raises UnboundLocalError
ctr_data(d) ==
    IF Len(d.contrasts) = 0 THEN [rows |-> <<>>, exc |-> "UnboundLocalError"]
    ELSE [rows |-> [i \in 1..Len(d.contrasts[1].data) |->
                       [j \in 1..Len(d.contrasts) |-> d.contrasts[j].data[i]]],
          exc |-> "none"]

\* ContrastsDefinition._format_data, for a definition that holds contrasts
ctr_format_data(d) ==
    LET rows == ctr_data(d).rows
    IN Join("\n", [i \in 1..Len(rows) |->
           Join(" ", [j \in 1..Len(rows[i]) |-> RJust(Str(rows[i][j]), 3)])])

\* ContrastsDefinition.save: the text left in the file and the exception
\* raised; the writes before _format_data reach the file in every case
ctr_save(d) ==
    LET head == "\n" \o ctr_format_header(d) \o "\n" \o "\n"
                \o ctr_format_names(d) \o "\n"
    IN IF ctr_data(d).exc # "none"
       THEN [text |-> head, exc |-> ctr_data(d).exc]
       ELSE [text |-> head \o ctr_format_data(d), exc |-> "none"]

RECURSIVE ctr_load_header(_, _)
\* the header loop of ContrastsDefinition.load: the header, and whether
\* int() raised ValueError
ctr_load_header(h, lines) ==
    IF Len(lines) = 0 THEN [header |-> h, exc |-> "none"]
    ELSE LET line == lines[1]
             key == StripChars(Slice(line, 0, CtrCutColumn), {":", " "})
             raw == SliceFrom(line, CtrCutColumn)
         IN IF Strip(line) = "" THEN ctr_load_header(h, Tail(lines))
            ELSE IF ~IsInt(raw) THEN [header |-> h, exc |-> "ValueError"]
            ELSE ctr_load_header(Put(h, key, IntV(ToInt(raw))), Tail(lines))

\* the cells of one data line of a .ctr file
ctr_cells(line) == Cells(line, CtrCellWidth)

\* ContrastsDefinition.load
ctr_load(d, f) ==
    IF ~f.exists THEN [doc |-> ctr_clear, exc |-> "IOError"]
    ELSE LET lines == ReadLines(f.text)
         IN IF Len(lines) = 0
            THEN [doc |-> ctr_clear, exc |-> "UnboundLocalError"]
            ELSE
    LET counter == FirstLineWith(lines, "\"", 0)
        names == SplitStr(StripChars(Strip(lines[counter + 1]), {"\""}), "\" \"")
        h == ctr_load_header(ctr_clear.header, SliceTo(lines, counter - 1))
        cells == [i \in 1..(Len(lines) - counter - 1) |->
                     ctr_cells(lines[counter + 1 + i])]
        bad == \E i \in 1..Len(cells) : \E j \in 1..Len(cells[i]) :
                   ~IsInt(cells[i][j])
        \* np.array of no row, or of rows of different lengths, has one axis
        \* only, and data[:, x] raises IndexError
        flat == Len(cells) = 0
                \/ \E i \in 1..Len(cells) : Len(cells[i]) # Len(cells[1])
        width == IF flat THEN 0 ELSE Len(cells[1])
        got == Min(Len(names), width)
        loaded == [x \in 1..got |->
                      Contrast(names[x],
                               [i \in 1..Len(cells) |-> ToInt(cells[i][x])])]
    IN IF h.exc # "none"
       THEN [doc |-> [header |-> h.header, contrasts |-> <<>>], exc |-> h.exc]
       ELSE IF bad
       THEN [doc |-> [header |-> h.header, contrasts |-> <<>>],
             exc |-> "ValueError"]
       ELSE [doc |-> [header |-> h.header, contrasts |-> loaded],
             exc |-> IF got < Len(names) THEN "IndexError" ELSE "none"]

\* ContrastsDefinition(load=f)
ctr_new(f) == ctr_load(ctr_clear, f)

\* a .ctr file that holds the given contrasts, as written by another program
ctr_written(contrasts) ==
    ctr_save([header |-> << <<"FileVersion", IntV(1)>>,
                            <<"NrOfContrasts", IntV(Len(contrasts))>>,
                            <<"NrOfValues", IntV(Len(contrasts[1].data))>> >>,
              contrasts |-> contrasts]).text

CtrFileInputs ==
    {File(ctr_written(<<Contrast("a", <<1, -1>>), Contrast("b", <<0, 1>>)>>)),
     File(ctr_written(<<Contrast("a b", <<1, 0, -10>>)>>))}

CtrAddContrast ==
    /\ Get(ctr.header, "NrOfContrasts").v < MaxContrasts
    /\ \E c \in ContrastInputs :
          LET r == ctr_add_contrast(ctr, c)
          IN /\ ctr' = r.doc
             /\ ctr_call' = [op |-> "add_contrast", arg |-> c, exc |-> r.exc, pre |-> ctr]
    /\ UNCHANGED ctr_file
    /\ UNCHANGED not_ctr

CtrClear ==
    /\ ctr' = ctr_clear
    /\ ctr_call' = [op |-> "clear", arg |-> "", exc |-> "none", pre |-> ctr]
    /\ UNCHANGED ctr_file
    /\ UNCHANGED not_ctr

CtrSave ==
    /\ LET r == ctr_save(ctr)
       IN /\ ctr_file' = File(r.text)
          /\ ctr_call' = [op |-> "save", arg |-> "", exc |-> r.exc, pre |-> ctr]
    /\ UNCHANGED ctr
    /\ UNCHANGED not_ctr

\* a file written by another program is put in place of the saved one
CtrPutFile ==
    /\ \E f \in CtrFileInputs : ctr_file' = f
    /\ ctr_call' = [op |-> "put_file", arg |-> "", exc |-> "none", pre |-> ctr]
    /\ UNCHANGED ctr
    /\ UNCHANGED not_ctr

CtrLoad ==
    /\ LET r == ctr_load(ctr, ctr_file)
       IN /\ ctr' = r.doc
          /\ ctr_call' = [op |-> "load", arg |-> "", exc |-> r.exc, pre |-> ctr]
    /\ UNCHANGED ctr_file
    /\ UNCHANGED not_ctr

(***************************************************************************)
(* mdm: multi-subject design matrices.                                     *)
(***************************************************************************)
\* Study(data_files, sdm_file), data_files a list
Study(data_files, sdm_file) == [data_files |-> data_files, sdm_file |-> sdm_file]

StudyInputs ==
    {Study(<<"a.vtc">>, "a.sdm"), Study(<<"b.vtc">>, "b.sdm"),
     Study(<<"a.ssm", "a.mtc">>, "a.sdm"), Study(<<"b.ssm", "b.mtc">>, "b.sdm")}

\* DesignMatrix.clear
mdm_clear ==
    [header |-> << <<"FileVersion", IntV(3)>>,
                   <<"TypeOfFunctionalData", StrV("VTC")>>,
                   <<"RFX-GLM", IntV(0)>>,
                   <<"PSCTransformation", IntV(1)>>,
                   <<"zTransformation", IntV(0)>>,
                   <<"SeparatePredictors", IntV(0)>>,
                   <<"NrOfStudies", IntV(0)>> >>,
     studies |-> <<>>]

\* the column the header keys of a .mdm file are padded to and cut at
MdmKeyWidth == 22

\* DesignMatrix._format_header
mdm_format_header(d) ==
    Join("", [i \in 1..Len(d.header) |->
        LJust(d.header[i][1] \o ":", MdmKeyWidth) \o FormatValue(d.header[i][2])
        \o (IF i - 1 < Len(d.header) - 1 THEN "\n" ELSE "")
        \o (IF i - 1 \in {1, 2, 5} THEN "\n" ELSE "")])

\* the line break _format_studies puts after study number c (from 0)
mdm_study_break(d, c) == IF c < Len(d.header) - 1 THEN "\n" ELSE ""

\* DesignMatrix._format_studies
mdm_format_studies(d) ==
    Join("", [i \in 1..Len(d.studies) |->
        "\"" \o Join("\" \"", d.studies[i].data_files) \o "\" \""
        \o d.studies[i].sdm_file \o "\"" \o mdm_study_break(d, i - 1)])

\* the text DesignMatrix.save writes
mdm_save(d) == "\n" \o mdm_format_header(d) \o "\n" \o mdm_format_studies(d)

\* whether add_study raises ValueError: the study's kind is not the held kind
mdm_kind_differs(d, study) ==
    IF Len(study.data_files) > 1
    THEN Get(d.header, "NrOfStudies").v > 0
         /\ IsStrV(Get(d.header, "TypeOfFunctionalData"), "VTC")
    ELSE Get(d.header, "NrOfStudies").v > 0
         /\ IsStrV(Get(d.header, "TypeOfFunctionalData"), "MTC")

\* DesignMatrix.add_study
mdm_add_study(d, study) ==
    LET h1 == IF Len(study.data_files) > 1
              THEN Put(d.header, "TypeOfFunctionalData", StrV("MTC"))
              ELSE d.header
        h2 == Put(h1, "NrOfStudies", IntV(Get(h1, "NrOfStudies").v + 1))
    IN IF mdm_kind_differs(d, study)
       THEN [doc |-> d, exc |-> "ValueError"]
       ELSE [doc |-> [header |-> h2, studies |-> Append(d.studies, study)],
             exc |-> "none"]

\* the lines of a .mdm file that load reads as header lines
mdm_header_lines(lines, counter) == SliceTo(lines, counter - 1)

RECURSIVE mdm_load_header(_, _)
\* the header loop of DesignMatrix.load
mdm_load_header(h, lines) ==
    IF Len(lines) = 0 THEN h
    ELSE LET line == lines[1]
             key == StripChars(Slice(line, 0, MdmKeyWidth), {":", " "})
             raw == SliceFrom(line, MdmKeyWidth)
             val == IF IsInt(raw) THEN IntV(ToInt(raw)) ELSE StrV(Strip(raw))
         IN mdm_load_header(IF Strip(line) # "" THEN Put(h, key, val) ELSE h,
                            Tail(lines))

\* [x for x in line.split('"') if x.strip() != ""]
mdm_quoted(line) == SelectSeq(Split(line, "\""), LAMBDA x : Strip(x) # "")

RECURSIVE mdm_load_studies(_, _)
\* the study loop of DesignMatrix.load: the studies appended, and the
\* exception that ended it
mdm_load_studies(studies, lines) ==
    IF Len(lines) = 0 THEN [studies |-> studies, exc |-> "none"]
    ELSE LET tmp == mdm_quoted(lines[1])
         IN IF Len(tmp) > 2
            THEN mdm_load_studies(
                    Append(studies, Study(SubSeq(tmp, 1, 2), tmp[3])), Tail(lines))
            ELSE IF Len(tmp) < 2
            THEN [studies |-> studies, exc |-> "IndexError"]
            ELSE mdm_load_studies(
                    Append(studies, Study(<<tmp[1]>>, tmp[2])), Tail(lines))

\* DesignMatrix.load
mdm_load(d, f) ==
    IF ~f.exists THEN [doc |-> mdm_clear, exc |-> "IOError"]
    ELSE LET lines == ReadLines(f.text)
         IN IF Len(lines) = 0
            THEN [doc |-> mdm_clear, exc |-> "UnboundLocalError"]
            ELSE LET counter == FirstLineWith(lines, "\"", 0)
                     h == mdm_load_header(mdm_clear.header,
                                          mdm_header_lines(lines, counter))
                     r == mdm_load_studies(<<>>, SliceFrom(lines, counter))
                 IN [doc |-> [header |-> h, studies |-> r.studies], exc |-> r.exc]

\* DesignMatrix(load=f)
mdm_new(f) == mdm_load(mdm_clear, f)

MdmAddStudy ==
    /\ Len(mdm.studies) < MaxStudies
    /\ \E s \in StudyInputs :
          LET r == mdm_add_study(mdm, s)
          IN /\ mdm' = r.doc
             /\ mdm_call' = [op |-> "add_study", arg |-> s, exc |-> r.exc, pre |-> mdm]
    /\ UNCHANGED <<mdm_file, mdm_built>>
    /\ UNCHANGED not_mdm

MdmClear ==
    /\ mdm' = mdm_clear
    /\ mdm_call' = [op |-> "clear", arg |-> "", exc |-> "none", pre |-> mdm]
    /\ mdm_built' = TRUE
    /\ UNCHANGED mdm_file
    /\ UNCHANGED not_mdm

MdmSave ==
    /\ mdm_file' = File(mdm_save(mdm))
    /\ mdm_call' = [op |-> "save", arg |-> "", exc |-> "none", pre |-> mdm]
    /\ UNCHANGED <<mdm, mdm_built>>
    /\ UNCHANGED not_mdm

MdmLoad ==
    /\ LET r == mdm_load(mdm, mdm_file)
       IN /\ mdm' = r.doc
          /\ mdm_call' = [op |-> "load", arg |-> "", exc |-> r.exc, pre |-> mdm]
    /\ mdm_built' = FALSE
    /\ UNCHANGED mdm_file
    /\ UNCHANGED not_mdm

\* the studies of the design matrices that are only built, cleared and saved
ManyStudyInputs == {Study(<<"a.vtc">>, "a.sdm")}

\* add_study on design matrices of up to MaxSavedStudies studies
MdmAddAnother ==
    /\ Len(mdm.studies) < MaxSavedStudies
    /\ \E s \in ManyStudyInputs :
          \E r \in {mdm_add_study(mdm, s)} :
             /\ mdm' = r.doc
             /\ mdm_call' = [op |-> "add_study", arg |-> s, exc |-> r.exc, pre |-> mdm]
    /\ UNCHANGED <<mdm_file, mdm_built>>
    /\ UNCHANGED not_mdm

(***************************************************************************)
(* sdm: single-subject design matrices.                                    *)
(***************************************************************************)
\* Predictor(name, data, colour), colour given as a list
Predictor(name, data, colour) ==
    [name |-> name, data |-> data, colour |-> SubSeq(colour, 1, Min(3, Len(colour)))]

PredictorInputs ==
    {Predictor(n, d, <<255, 0, 0>>) : n \in {"P", "Q"}, d \in {<<0, 1>>, <<1>>}}

\* DesignMatrix.clear
sdm_clear ==
    [header |-> << <<"FileVersion", IntV(1)>>,
                   <<"NrOfPredictors", IntV(0)>>,
                   <<"NrOfDataPoints", IntV(0)>>,
                   <<"IncludesConstant", IntV(0)>>,
                   <<"FirstConfoundPredictor", IntV(1)>> >>,
     predictors |-> <<>>]

\* list.insert(position, x)
ListInsert(l, position, x) ==
    LET p == IF position < 0 THEN Max(Len(l) + position, 0) ELSE Min(position, Len(l))
    IN SubSeq(l, 1, p) \o <<x>> \o SubSeq(l, p + 1, Len(l))

\* the length test as it would be if only longer predictors were refused
sdm_length_exceeds(d, predictor) ==
    Get(d.header, "NrOfPredictors").v > 0
    /\ Len(predictor.data) > Get(d.header, "NrOfDataPoints").v

\* whether add_predictor raises ValueError: the predictor has another length
sdm_length_differs(d, predictor) ==
    Get(d.header, "NrOfPredictors").v > 0
    /\ ~IsIntV(Get(d.header, "NrOfDataPoints"), Len(predictor.data))

\* the position as it would be if confounds went to the end of the list
sdm_position_at_end(d, is_confound) ==
    IF is_confound
    THEN Get(d.header, "NrOfPredictors").v
    ELSE Get(d.header, "FirstConfoundPredictor").v - 1

\* the position add_predictor inserts at
sdm_position(d, is_confound) ==
    IF is_confound
    THEN Get(d.header, "NrOfPredictors").v - Get(d.header, "IncludesConstant").v
    ELSE Get(d.header, "FirstConfoundPredictor").v - 1

\* DesignMatrix.add_predictor
sdm_add_predictor(d, predictor, is_confound) ==
    LET h0 == d.header
        h1 == IF IsIntV(Get(h0, "NrOfPredictors"), 0)
              THEN Put(h0, "NrOfDataPoints", IntV(Len(predictor.data)))
              ELSE h0
        h2 == Put(h1, "NrOfPredictors", IntV(Get(h1, "NrOfPredictors").v + 1))
        h3 == IF ~is_confound
              THEN Put(h2, "FirstConfoundPredictor",
                       IntV(Get(h2, "FirstConfoundPredictor").v + 1))
              ELSE h2
    IN IF sdm_length_differs(d, predictor)
       THEN [doc |-> d, exc |-> "ValueError"]
       ELSE [doc |-> [header |-> h3,
                      predictors |-> ListInsert(d.predictors,
                                                sdm_position(d, is_confound),
                                                predictor)],
             exc |-> "none"]

\* DesignMatrix.add_confound_predictor
sdm_add_confound_predictor(d, predictor) == sdm_add_predictor(d, predictor, TRUE)

\* DesignMatrix.data: the matrix, one column per predictor, as its rows; the
\* property fails without predictors and when their lengths differ
sdm_data(d) ==
    IF Len(d.predictors) = 0 THEN [exc |-> "UnboundLocalError"]
    ELSE IF \E i \in 1..Len(d.predictors) :
               Len(d.predictors[i].data) # Len(d.predictors[1].data)
    THEN [exc |-> "ValueError"]
    ELSE [exc |-> "none",
          rows |-> [r \in 1..Len(d.predictors[1].data) |->
                      [c \in 1..Len(d.predictors) |-> d.predictors[c].data[r]]]]

\* a predictor named Constant of n zeros
sdm_constant_zeros(n) ==
    Predictor("Constant", [i \in 1..n |-> 0], <<255, 255, 255>>)

\* the predictor add_constant adds to a matrix of n rows
sdm_constant(n) == Predictor("Constant", [i \in 1..n |-> 1], <<255, 255, 255>>)

\* DesignMatrix.add_constant
sdm_add_constant(d) ==
    LET m == sdm_data(d)
    IN IF m.exc # "none" THEN [doc |-> d, exc |-> m.exc]
       ELSE LET r == sdm_add_predictor(d, sdm_constant(Len(m.rows)), TRUE)
            IN IF r.exc # "none" THEN r
               ELSE [doc |-> [r.doc EXCEPT !.header =
                                 Put(r.doc.header, "IncludesConstant", IntV(1))],
                     exc |-> "none"]

\* the column the header keys of a .sdm file are padded to and cut at
SdmKeyWidth == 24

\* the width of one value in the data lines save writes
SdmCellWidth == 12

\* the col_length load reads with by default, and the second one the
\* constructor tries
SdmColLength == 11
SdmColLengthMotion == 12

\* DesignMatrix._format_header
sdm_format_header(d) ==
    Join("", [i \in 1..Len(d.header) |->
        LJust(d.header[i][1] \o ":", SdmKeyWidth) \o FormatValue(d.header[i][2])
        \o (IF i - 1 < Len(d.header) - 1 THEN "\n" ELSE "")
        \o (IF i - 1 = 0 THEN "\n" ELSE "")])

\* DesignMatrix._format_colours
sdm_format_colours(d) ==
    Join("   ", [i \in 1..Len(d.predictors) |->
        Str(d.predictors[i].colour[1]) \o " " \o Str(d.predictors[i].colour[2])
        \o " " \o Str(d.predictors[i].colour[3])])

\* DesignMatrix._format_names
sdm_format_names(d) ==
    "\"" \o Join("\" \"", [i \in 1..Len(d.predictors) |-> d.predictors[i].name])
    \o "\""

\* DesignMatrix._format_data, for a matrix whose data property succeeds
sdm_format_data(d) ==
    LET rows == sdm_data(d).rows
    IN Join("\n", [i \in 1..Len(rows) |->
           Join("", [j \in 1..Len(rows[i]) |->
               RJust(FormatFloat(rows[i][j]), SdmCellWidth)])])

\* DesignMatrix.save: the text left in the file and the exception raised;
\* the writes before _format_data reach the file in every case
sdm_save(d) ==
    LET head == sdm_format_header(d) \o "\n" \o "\n"
                \o sdm_format_colours(d) \o "\n" \o sdm_format_names(d) \o "\n"
    IN IF sdm_data(d).exc # "none"
       THEN [text |-> head, exc |-> sdm_data(d).exc]
       ELSE [text |-> head \o sdm_format_data(d), exc |-> "none"]

RECURSIVE sdm_load_header(_, _)
\* the header loop of DesignMatrix.load: the header, and whether int()
\* raised ValueError
sdm_load_header(h, lines) ==
    IF Len(lines) = 0 THEN [header |-> h, exc |-> "none"]
    ELSE LET line == lines[1]
             key == StripChars(Slice(line, 0, SdmKeyWidth), {":", " "})
             raw == SliceFrom(line, SdmKeyWidth)
         IN IF Strip(line) = "" THEN sdm_load_header(h, Tail(lines))
            ELSE IF ~IsInt(raw) THEN [header |-> h, exc |-> "ValueError"]
            ELSE sdm_load_header(Put(h, key, IntV(ToInt(raw))), Tail(lines))

RECURSIVE sdm_load_predictors(_, _, _, _, _)
\* the predictor loop of DesignMatrix.load, from names[x] on (x from 0):
\* data[:, x] and colours[x] raise IndexError, int() of a colour ValueError
sdm_load_predictors(predictors, names, cells, colours, x) ==
    LET flat == Len(cells) = 0
                \/ \E i \in 1..Len(cells) : Len(cells[i]) # Len(cells[1])
        width == IF flat THEN 0 ELSE Len(cells[1])
        colour == Tokens(colours[x + 1])
    IN IF x >= Len(names) THEN [predictors |-> predictors, exc |-> "none"]
       ELSE IF x >= width \/ x >= Len(colours)
       THEN [predictors |-> predictors, exc |-> "IndexError"]
       ELSE IF \E i \in 1..Len(colour) : ~IsInt(colour[i])
       THEN [predictors |-> predictors, exc |-> "ValueError"]
       ELSE sdm_load_predictors(
               Append(predictors,
                      [name |-> names[x + 1],
                       data |-> [i \in 1..Len(cells) |-> ToFloat(cells[i][x + 1])],
                       colour |-> [i \in 1..Len(colour) |-> ToInt(colour[i])]]),
               names, cells, colours, x + 1)

\* DesignMatrix.load
sdm_load(d, f, col_length) ==
    IF ~f.exists THEN [doc |-> sdm_clear, exc |-> "IOError"]
    ELSE LET lines == ReadLines(f.text)
         IN IF Len(lines) = 0
            THEN [doc |-> sdm_clear, exc |-> "UnboundLocalError"]
            ELSE
    LET counter == FirstLineWith(lines, "\"", 0)
        names == SplitStr(StripChars(Strip(lines[counter + 1]), {"\""}), "\" \"")
        \* lines[counter-1]: the last line when counter is 0
        before == IF counter = 0 THEN lines[Len(lines)] ELSE lines[counter]
        colours == SplitStr(Strip(before), "   ")
        h == sdm_load_header(sdm_clear.header, SliceTo(lines, counter - 1))
        cells == [i \in 1..(Len(lines) - counter - 1) |->
                     Cells(lines[counter + 1 + i], col_length)]
        bad == \E i \in 1..Len(cells) : \E j \in 1..Len(cells[i]) :
                   ~IsInt(Strip(cells[i][j])) /\ ~IsFloat(Strip(cells[i][j]))
        r == sdm_load_predictors(<<>>, names, cells, colours, 0)
    IN IF h.exc # "none"
       THEN [doc |-> [header |-> h.header, predictors |-> <<>>], exc |-> h.exc]
       ELSE IF bad
       THEN [doc |-> [header |-> h.header, predictors |-> <<>>],
             exc |-> "ValueError"]
       ELSE [doc |-> [header |-> h.header, predictors |-> r.predictors],
             exc |-> r.exc]

\* DesignMatrix(load=f): both column lengths are tried, and any failure of
\* the second is raised as IOError
sdm_new(f) ==
    LET first == sdm_load(sdm_clear, f, SdmColLength)
        second == sdm_load(sdm_clear, f, SdmColLengthMotion)
    IN IF first.exc = "none" THEN first
       ELSE IF second.exc = "none" THEN second
       ELSE [doc |-> second.doc, exc |-> "IOError"]

SdmLogged(kind, predictor, exc) ==
    IF exc = "none" THEN Append(sdm_log, [kind |-> kind, predictor |-> predictor])
    ELSE sdm_log

SdmAddPredictor ==
    /\ Len(sdm.predictors) < MaxPredictors
    /\ \E p \in PredictorInputs :
          LET r == sdm_add_predictor(sdm, p, FALSE)
          IN /\ sdm' = r.doc
             /\ sdm_call' = [op |-> "add_predictor", arg |-> p, exc |-> r.exc, pre |-> sdm]
             /\ sdm_log' = SdmLogged("predictor", p, r.exc)
    /\ UNCHANGED sdm_disk
    /\ UNCHANGED not_sdm

SdmAddConfoundPredictor ==
    /\ Len(sdm.predictors) < MaxPredictors
    /\ \E p \in PredictorInputs :
          LET r == sdm_add_confound_predictor(sdm, p)
          IN /\ sdm' = r.doc
             /\ sdm_call' = [op |-> "add_confound_predictor", arg |-> p,
                             exc |-> r.exc, pre |-> sdm]
             /\ sdm_log' = SdmLogged("confound", p, r.exc)
    /\ UNCHANGED sdm_disk
    /\ UNCHANGED not_sdm

SdmAddConstant ==
    /\ Len(sdm.predictors) < MaxPredictors
    /\ LET r == sdm_add_constant(sdm)
       IN /\ sdm' = r.doc
          /\ sdm_call' = [op |-> "add_constant", arg |-> "", exc |-> r.exc, pre |-> sdm]
          /\ sdm_log' = SdmLogged("constant",
                                  sdm_constant(Get(sdm.header, "NrOfDataPoints").v),
                                  r.exc)
    /\ UNCHANGED sdm_disk
    /\ UNCHANGED not_sdm

SdmClear ==
    /\ sdm' = sdm_clear
    /\ sdm_call' = [op |-> "clear", arg |-> "", exc |-> "none", pre |-> sdm]
    /\ sdm_log' = <<>>
    /\ UNCHANGED sdm_disk
    /\ UNCHANGED not_sdm

SdmSave ==
    /\ LET r == sdm_save(sdm)
       IN /\ sdm_disk' = File(r.text)
          /\ sdm_call' = [op |-> "save", arg |-> "", exc |-> r.exc, pre |-> sdm]
    /\ UNCHANGED <<sdm, sdm_log>>
    /\ UNCHANGED not_sdm

SdmLoad ==
    /\ LET r == sdm_load(sdm, sdm_disk, SdmColLength)
       IN /\ sdm' = r.doc
          /\ sdm_call' = [op |-> "load", arg |-> "", exc |-> r.exc, pre |-> sdm]
    /\ sdm_log' = <<>>
    /\ UNCHANGED sdm_disk
    /\ UNCHANGED not_sdm

(***************************************************************************)
(* prt: stimulation protocols (src/brainvoyagertools/prt.py).              *)
(***************************************************************************)
\* Condition(name, data, colour), data a list of rows, colour a list
Condition(name, data, colour) ==
    [name |-> name, data |-> data, colour |-> SubSeq(colour, 1, Min(3, Len(colour)))]

ConditionInputs ==
    {Condition("A", <<<<1, 2>>, <<3, 10>>>>, <<255, 0, 0>>),
     Condition("B", <<<<1, 2>>, <<1, 2>>>>, <<0, 255, 0>>),
     Condition("W", <<<<5, 6, 2>>>>, <<80, 80, 80>>)}

\* whether data.shape has a second entry: the array of the rows is
\* two-dimensional when there are rows and all have one length
HasColumns(data) ==
    Len(data) > 0 /\ \A i \in 1..Len(data) : Len(data[i]) = Len(data[1])

\* data.shape[1], when HasColumns(data)
Columns(data) == Len(data[1])

\* np.append(data, np.array([data.shape[0] * [1]]).T, axis=1)
AppendOnes(data) == [i \in 1..Len(data) |-> Append(data[i], 1)]

\* StimulationProtocol.clear
prt_clear ==
    [header |-> << <<"FileVersion", IntV(2)>>,
                   <<"ResolutionOfTime", StrV("Volumes")>>,
                   <<"Experiment", StrV("untitled")>>,
                   <<"BackgroundColor", ListV(<<0, 0, 0>>)>>,
                   <<"TextColor", ListV(<<255, 255, 255>>)>>,
                   <<"TimeCourseColor", ListV(<<255, 255, 255>>)>>,
                   <<"TimeCourseThick", IntV(3)>>,
                   <<"ReferenceFuncColor", ListV(<<0, 0, 80>>)>>,
                   <<"ReferenceFuncThick", IntV(3)>>,
                   <<"ParametricWeights", IntV(0)>>,
                   <<"NrOfConditions", IntV(0)>> >>,
     conditions |-> <<>>]

\* the column the header keys of a .prt file are padded to
PrtKeyWidth == 20

\* the value _format_header writes: a list as its three entries
prt_format_value(x) ==
    IF x.t = "list" THEN Str(x.v[1]) \o " " \o Str(x.v[2]) \o " " \o Str(x.v[3])
    ELSE FormatValue(x)

\* whether _format_header fails unpacking a list into r, g, b
prt_header_unpack_fails(d) ==
    \E i \in 1..Len(d.header) :
       /\ i - 1 # 9 \/ IsIntV(Get(d.header, "FileVersion"), 3)
       /\ d.header[i][2].t = "list"
       /\ Len(d.header[i][2].v) # 3

\* StimulationProtocol._format_header
prt_format_header(d) ==
    Join("", [i \in 1..Len(d.header) |->
        IF i - 1 # 9 \/ IsIntV(Get(d.header, "FileVersion"), 3)
        THEN LJust(d.header[i][1] \o ":", PrtKeyWidth) \o prt_format_value(d.header[i][2])
             \o (IF i - 1 < Len(d.header) - 1 THEN "\n" ELSE "")
             \o (IF i - 1 \in {0, 1, 2, 8, 9} THEN "\n" ELSE "")
        ELSE ""])

\* the width Condition._format_data pads to: the longest str of an offset
prt_data_width(data) ==
    LET w[i \in 0..Len(data)] ==
            IF i = 0 THEN 0 ELSE Max(w[i - 1], Len(Str(data[i][2])))
    IN w[Len(data)]

\* Condition._format_data
prt_format_data(c) ==
    Join("\n", [i \in 1..Len(c.data) |->
        " " \o Join("  ", [j \in 1..Len(c.data[i]) |->
                             RJust(Str(c.data[i][j]), prt_data_width(c.data))])])

\* Condition._format_colour
prt_format_colour(c) ==
    "Color: " \o Join(" ", [i \in 1..Len(c.colour) |-> Str(c.colour[i])])

\* Condition.__str__
prt_condition_str(c) ==
    c.name \o "\n" \o Str(Len(c.data)) \o "\n" \o prt_format_data(c) \o "\n"
    \o prt_format_colour(c)

\* StimulationProtocol._format_conditions
prt_format_conditions(d) ==
    Join("\n\n", [i \in 1..Len(d.conditions) |-> prt_condition_str(d.conditions[i])])

\* whether _format_data fails reading the offset of a row
prt_row_too_short(d) ==
    \E i \in 1..Len(d.conditions) :
       \E j \in 1..Len(d.conditions[i].data) : Len(d.conditions[i].data[j]) < 2

\* StimulationProtocol.save: the text the file holds afterwards
prt_save(d) ==
    IF prt_header_unpack_fails(d) THEN [text |-> "\n", exc |-> "ValueError"]
    ELSE IF prt_row_too_short(d)
    THEN [text |-> "\n" \o prt_format_header(d) \o "\n" \o "\n", exc |-> "IndexError"]
    ELSE [text |-> "\n" \o prt_format_header(d) \o "\n" \o "\n"
                   \o prt_format_conditions(d),
          exc |-> "none"]

\* add_condition's first branch without its loop over the held conditions
prt_retrofit_none(conditions) == conditions

\* the columns of the conditions held after add_condition's first branch
prt_retrofit(conditions) ==
    [i \in 1..Len(conditions) |->
        IF Columns(conditions[i].data) < 3
        THEN [conditions[i] EXCEPT !.data = AppendOnes(conditions[i].data)]
        ELSE conditions[i]]

\* StimulationProtocol.add_condition
prt_add_condition(d, condition) ==
    IF ~HasColumns(condition.data) THEN [doc |-> d, exc |-> "IndexError"]
    ELSE LET weighted == Columns(condition.data) > 2
             h1 == IF weighted
                   THEN Put(Put(d.header, "FileVersion", IntV(3)),
                            "ParametricWeights", IntV(1))
                   ELSE d.header
             held == IF weighted THEN prt_retrofit(d.conditions) ELSE d.conditions
             added == IF ~weighted /\ IsIntV(Get(d.header, "FileVersion"), 3)
                         /\ IsIntV(Get(d.header, "ParametricWeights"), 1)
                      THEN [condition EXCEPT !.data = AppendOnes(condition.data)]
                      ELSE condition
             h2 == Put(h1, "NrOfConditions", IntV(Get(h1, "NrOfConditions").v + 1))
         IN [doc |-> [header |-> h2, conditions |-> Append(held, added)],
             exc |-> "none"]

\* the repetition times convert_to_msec is called with
TrInputs == {100, 1000}

\* a row after the body of convert_to_msec's loop with onsets counted from
\* zero; int() of a whole number is the number
prt_msec_row_from_zero(row, tr) ==
    [k \in 1..Len(row) |->
        IF k = 1 THEN row[1] * tr ELSE IF k = 2 THEN row[2] * tr ELSE row[k]]

\* a row after the body of convert_to_msec's loop: intervall[0] and
\* intervall[1] assigned in place; int() of a whole number is the number
prt_msec_row(row, tr) ==
    [k \in 1..Len(row) |->
        IF k = 1 THEN (row[1] - 1) * tr ELSE IF k = 2 THEN row[2] * tr ELSE row[k]]

\* a row of fewer than two entries after the loop body failed on it: the
\* onset, if there is one, is already assigned when intervall[1] fails
prt_msec_row_failed(row, tr) ==
    IF Len(row) = 1 THEN <<(row[1] - 1) * tr>> ELSE row

\* the first row, in the order of the two loops, that has no offset:
\* <<condition, row>>, or <<0, 0>> when there is none
prt_first_short(conditions) ==
    LET short == UNION {{<<i, j>> : j \in {k \in 1..Len(conditions[i].data) :
                                              Len(conditions[i].data[k]) < 2}} :
                        i \in 1..Len(conditions)}
    IN IF short = {} THEN <<0, 0>>
       ELSE CHOOSE p \in short :
               \A q \in short : p[1] < q[1] \/ (p[1] = q[1] /\ p[2] <= q[2])

\* convert_to_msec without its test of the time units
prt_convert_any_units(d, tr) ==
    LET conv(p) ==
            [doc |->
                [header |-> IF p = <<0, 0>>
                            THEN Put(d.header, "ResolutionOfTime", StrV("msec"))
                            ELSE d.header,
                 conditions |->
                    [i \in 1..Len(d.conditions) |->
                        [d.conditions[i] EXCEPT !.data =
                            [j \in 1..Len(d.conditions[i].data) |->
                                IF p = <<0, 0>> \/ i < p[1] \/ (i = p[1] /\ j < p[2])
                                THEN prt_msec_row(d.conditions[i].data[j], tr)
                                ELSE IF <<i, j>> = p
                                THEN prt_msec_row_failed(d.conditions[i].data[j], tr)
                                ELSE d.conditions[i].data[j]]]]],
             exc |-> IF p = <<0, 0>> THEN "none" ELSE "IndexError"]
    IN conv(prt_first_short(d.conditions))

\* StimulationProtocol.convert_to_msec
prt_convert_to_msec(d, tr) ==
    IF Get(d.header, "ResolutionOfTime") = StrV("msec")
    THEN [doc |-> d, exc |-> "none"]
    ELSE prt_convert_any_units(d, tr)

\* whether every onset and offset held is within MaxTime
prt_within_time(d) ==
    \A i \in 1..Len(d.conditions) :
       \A j \in 1..Len(d.conditions[i].data) :
          \A k \in 1..Min(2, Len(d.conditions[i].data[j])) :
             /\ d.conditions[i].data[j][k] <= MaxTime
             /\ d.conditions[i].data[j][k] >= 0 - MaxTime

\* StimulationProtocol.add_condition of the prt package, whose loop over the
\* held conditions rebinds the name of its argument: with a weighted
\* condition and conditions held, what it appends is the last one held
prt0_add_condition(d, condition) ==
    IF ~HasColumns(condition.data) THEN [doc |-> d, exc |-> "IndexError"]
    ELSE LET weighted == Columns(condition.data) > 2
             h1 == IF weighted
                   THEN Put(Put(d.header, "FileVersion", IntV(3)),
                            "ParametricWeights", IntV(1))
                   ELSE d.header
             held == IF weighted THEN prt_retrofit(d.conditions) ELSE d.conditions
             added == IF weighted
                      THEN (IF Len(held) > 0 THEN held[Len(held)] ELSE condition)
                      ELSE IF IsIntV(Get(d.header, "FileVersion"), 3)
                              /\ IsIntV(Get(d.header, "ParametricWeights"), 1)
                      THEN [condition EXCEPT !.data = AppendOnes(condition.data)]
                      ELSE condition
             h2 == Put(h1, "NrOfConditions", IntV(Get(h1, "NrOfConditions").v + 1))
         IN [doc |-> [header |-> h2, conditions |-> Append(held, added)],
             exc |-> "none"]

RECURSIVE Dedupe(_)
\* [x[0] for x in groupby(lines)]: runs of equal lines become one line
Dedupe(lines) ==
    IF Len(lines) <= 1 THEN lines
    ELSE IF lines[1] = lines[2] THEN Dedupe(Tail(lines))
    ELSE <<lines[1]>> \o Dedupe(Tail(lines))

\* line.replace("\t", "  ")
ReplaceTabs(line) ==
    IF FindFrom(line, "\t", 0) < 0 THEN line
    ELSE Join("", [i \in 1..Len(line) |->
                     IF CharAt(line, i - 1) = "\t" THEN "  " ELSE CharAt(line, i - 1)])

\* the lines StimulationProtocol.load works on
prt_lines(text) ==
    LET stripped(deduped) ==
            [i \in 1..Len(deduped) |-> Strip(ReplaceTabs(deduped[i]))]
    IN SelectSeq(stripped(Dedupe(ReadLines(text))), LAMBDA line : Strip(line) # "")

\* the typed value of a header line's raw value
prt_header_value(raw) ==
    LET typed(value) ==
            IF Len(value) > 1
            THEN IF \A i \in 1..Len(value) : IsInt(value[i])
                 THEN ListV([i \in 1..Len(value) |-> ToInt(value[i])])
                 ELSE StrV(Join(" ", value))
            ELSE IF IsInt(value[1]) THEN IntV(ToInt(value[1])) ELSE StrV(value[1])
    IN typed(Split(Strip(raw), " "))

RECURSIVE prt_load_header(_, _)
\* the header loop of StimulationProtocol.load
prt_load_header(h, lines) ==
    LET line(parts) ==
            IF Len(parts) < 2 THEN [header |-> h, exc |-> "IndexError"]
            ELSE prt_load_header(Put(h, Strip(parts[1]), prt_header_value(parts[2])),
                                 Tail(lines))
    IN IF Len(lines) = 0 THEN [header |-> h, exc |-> "none"]
       ELSE line(Split1(lines[1], ":"))

\* the typed value of a header line's raw value in load of the prt package
\* (src/prt/__init__.py): a value of several tokens is a list of integers
\* or raises ValueError
prt0_header_value(raw) ==
    LET typed(value) ==
            IF Len(value) > 1
            THEN IF \A i \in 1..Len(value) : IsInt(value[i])
                 THEN [exc |-> "none",
                       value |-> ListV([i \in 1..Len(value) |-> ToInt(value[i])])]
                 ELSE [exc |-> "ValueError"]
            ELSE [exc |-> "none",
                  value |-> IF IsInt(value[1]) THEN IntV(ToInt(value[1]))
                            ELSE StrV(value[1])]
    IN typed(Split(Strip(raw), " "))

\* the row [int_or_float(i) for i in line.split(" ") if i]
prt_row(line) ==
    LET row(tokens) ==
            IF \E i \in 1..Len(tokens) : ~IsInt(tokens[i]) /\ ~IsFloat(tokens[i])
            THEN [exc |-> "ValueError"]
            ELSE [exc |-> "none",
                  row |-> [i \in 1..Len(tokens) |->
                             IF IsInt(tokens[i]) THEN ToInt(tokens[i])
                             ELSE FloatV(tokens[i])]]
    IN row(Tokens(line))

RECURSIVE prt_load_rows(_, _, _, _)
\* the data rows of lines[x] for x in range(start, end)
prt_load_rows(lines, x, end, data) ==
    LET next(r) == IF r.exc # "none" THEN [exc |-> r.exc]
                   ELSE prt_load_rows(lines, x + 1, end, Append(data, r.row))
    IN IF x >= end THEN [exc |-> "none", data |-> data]
       ELSE IF x >= Len(lines) THEN [exc |-> "IndexError"]
       ELSE next(prt_row(lines[x + 1]))

\* a local variable that is not assigned yet, or holds n
Unbound == [bound |-> FALSE]
Bound(n) == [bound |-> TRUE, v |-> n]

\* the try block of load's condition loop, for the block at lines[counter]:
\* the protocol, number_events and the exception afterwards
prt_load_block(d, lines, counter, number_events) ==
    LET added(r, n) == [doc |-> r.doc, number_events |-> Bound(n), exc |-> r.exc]
        \* from "colour = ..." on, end = start + number_events
        coloured(name, n, data, colour) ==
            IF \E i \in 1..Len(colour) : ~IsInt(colour[i])
            THEN [doc |-> d, number_events |-> Bound(n), exc |-> "ValueError"]
            ELSE added(prt_add_condition(d,
                          Condition(name, data,
                                    [i \in 1..Len(colour) |-> ToInt(colour[i])])), n)
        \* from "data = []" on
        rowed(name, n, end, rows) ==
            IF rows.exc # "none"
            THEN [doc |-> d, number_events |-> Bound(n), exc |-> rows.exc]
            ELSE IF end >= Len(lines) \/ end < 0
            THEN [doc |-> d, number_events |-> Bound(n), exc |-> "IndexError"]
            ELSE coloured(name, n, rows.data,
                          Split(SliceFrom(lines[end + 1], 7), " "))
        \* from "end = start + number_events" on
        counted(name, start, n) ==
            rowed(name, n, start + n, prt_load_rows(lines, start, start + n, <<>>))
    IN IF counter + 1 >= Len(lines)
       THEN [doc |-> d, number_events |-> number_events, exc |-> "IndexError"]
       ELSE IF ~IsInt(lines[counter + 2])
       THEN [doc |-> d, number_events |-> number_events, exc |-> "ValueError"]
       ELSE counted(Strip(lines[counter + 1]), counter + 2,
                    ToInt(lines[counter + 2]))

RECURSIVE prt_load_conditions(_, _, _, _, _)
\* the condition loop of StimulationProtocol.load, todo blocks to go
prt_load_conditions(d, lines, counter, number_events, todo) ==
    LET next(b) ==
            IF b.exc \notin {"none", "IndexError"} THEN [doc |-> b.doc, exc |-> b.exc]
            ELSE IF ~b.number_events.bound
            THEN [doc |-> b.doc, exc |-> "UnboundLocalError"]
            ELSE prt_load_conditions(b.doc, lines, counter + b.number_events.v + 3,
                                     b.number_events, todo - 1)
    IN IF todo <= 0 THEN [doc |-> d, exc |-> "none"]
       ELSE next(prt_load_block(d, lines, counter, number_events))

\* StimulationProtocol.load, from "for line in lines[:counter]" on
prt_load_from(d, lines, counter) ==
    LET body(d1, conds) ==
            IF Len(conds) < 2 THEN [doc |-> d1, exc |-> "IndexError"]
            ELSE IF ~IsInt(conds[2]) THEN [doc |-> d1, exc |-> "ValueError"]
            ELSE prt_load_conditions(d1, lines, counter + 1, Unbound,
                                     ToInt(conds[2]))
        head(h) ==
            IF h.exc # "none"
            THEN [doc |-> [d EXCEPT !.header = h.header], exc |-> h.exc]
            ELSE body([d EXCEPT !.header = h.header],
                      Split1(lines[counter + 1], ":"))
    IN head(prt_load_header(d.header, SliceTo(lines, counter)))

\* StimulationProtocol.load
prt_load(d, f) ==
    LET read(lines) ==
            IF Len(lines) = 0 THEN [doc |-> d, exc |-> "UnboundLocalError"]
            ELSE prt_load_from(d, lines, FirstLineWith(lines, "NrOfConditions", 0))
    IN IF ~f.exists THEN [doc |-> d, exc |-> "IOError"]
       ELSE read(prt_lines(f.text))

\* StimulationProtocol(load=f) without the except clause of the constructor
prt_new_unguarded(f) == prt_load(prt_clear, f)

\* StimulationProtocol(load=f): any exception of load is raised as IOError
prt_new(f) ==
    LET made(r) == [doc |-> r.doc, exc |-> IF r.exc = "none" THEN "none" ELSE "IOError"]
    IN made(prt_load(prt_clear, f))

\* the events in the order event_list's two loops append them: the name
\* of the condition followed by the row
RECURSIVE prt_events_from(_, _)
prt_events_from(conditions, i) ==
    IF i > Len(conditions) THEN <<>>
    ELSE [j \in 1..Len(conditions[i].data) |->
             <<conditions[i].name>> \o conditions[i].data[j]]
         \o prt_events_from(conditions, i + 1)

prt_events(d) == prt_events_from(d.conditions, 1)

\* sorted(events, key=lambda x: x[1]): a stable sort, an event is placed
\* behind the events before it whose onset is not larger
InsertByOnset(sorted, e) ==
    LET k == Cardinality({i \in 1..Len(sorted) : sorted[i][2] <= e[2]})
    IN SubSeq(sorted, 1, k) \o <<e>> \o SubSeq(sorted, k + 1, Len(sorted))

RECURSIVE SortedByOnset(_)
SortedByOnset(events) ==
    IF events = <<>> THEN <<>>
    ELSE InsertByOnset(SortedByOnset(SubSeq(events, 1, Len(events) - 1)),
                       events[Len(events)])

\* the events as the loops leave them, without the sort
prt_event_list_unsorted(d) == prt_events(d)

\* StimulationProtocol.event_list
prt_event_list(d) == SortedByOnset(prt_events(d))

\* StimulationProtocol.event_onsets
prt_event_onsets(d) ==
    [i \in 1..Len(prt_event_list(d)) |-> prt_event_list(d)[i][2]]

\* a duration that does not count the volume of the offset
prt_duration_exclusive(units, onset, offset) == offset - onset

\* the duration of an interval as event_durations and condition_durations
\* compute it
prt_duration(units, onset, offset) ==
    IF units = StrV("msec") THEN offset - onset ELSE offset - onset + 1

\* StimulationProtocol.event_durations
prt_event_durations(d) ==
    [i \in 1..Len(prt_event_list(d)) |->
        prt_duration(Get(d.header, "ResolutionOfTime"),
                     prt_event_list(d)[i][2], prt_event_list(d)[i][3])]

\* StimulationProtocol.condition_onsets
prt_condition_onsets(d) ==
    [i \in 1..Len(d.conditions) |->
        [j \in 1..Len(d.conditions[i].data) |-> d.conditions[i].data[j][1]]]

\* StimulationProtocol.condition_durations
prt_condition_durations(d) ==
    [i \in 1..Len(d.conditions) |->
        [j \in 1..Len(d.conditions[i].data) |->
            prt_duration(Get(d.header, "ResolutionOfTime"),
                         d.conditions[i].data[j][1], d.conditions[i].data[j][2])]]

\* the four properties read one after the other; the offset of a row that
\* has none is an IndexError
prt_read_durations(d) ==
    IF prt_row_too_short(d) THEN [exc |-> "IndexError"]
    ELSE [exc |-> "none",
          event_onsets |-> prt_event_onsets(d),
          event_durations |-> prt_event_durations(d),
          condition_onsets |-> prt_condition_onsets(d),
          condition_durations |-> prt_condition_durations(d)]

\* np.sort of one column: the values in non-decreasing order
InsertValue(sorted, x) ==
    LET k == Cardinality({i \in 1..Len(sorted) : sorted[i] <= x})
    IN SubSeq(sorted, 1, k) \o <<x>> \o SubSeq(sorted, k + 1, Len(sorted))

RECURSIVE SortValues(_)
SortValues(values) ==
    IF values = <<>> THEN <<>>
    ELSE InsertValue(SortValues(SubSeq(values, 1, Len(values) - 1)),
                     values[Len(values)])

\* np.sort(rows, axis=0): every column is sorted on its own
SortColumns(rows) ==
    [i \in 1..Len(rows) |->
        [k \in 1..Len(rows[1]) |->
            SortValues([j \in 1..Len(rows) |-> rows[j][k]])[i]]]

\* Condition.__add__: np.concatenate refuses arrays whose rows differ in
\* length
prt_condition_add(a, b) ==
    IF ~(HasColumns(a.data) /\ HasColumns(b.data)
         /\ Columns(a.data) = Columns(b.data))
    THEN [exc |-> "ValueError"]
    ELSE IF Len(a.colour) < 3 \/ Len(b.colour) < 3 THEN [exc |-> "IndexError"]
    ELSE [exc |-> "none",
          condition |->
             Condition(a.name \o "+" \o b.name, SortColumns(a.data \o b.data),
                       [i \in 1..3 |-> Min(a.colour[i] + b.colour[i], 255)])]

\* StimulationProtocol.__init__ without a file, for the two time units it
\* accepts
prt_new_units(time_units) ==
    [prt_clear EXCEPT !.header =
        Put(Put(prt_clear.header, "Experiment", StrV("untitled")),
            "ResolutionOfTime", StrV(time_units))]

PrtAddCondition ==
    /\ Len(prt.conditions) < MaxConditions
    /\ \E c \in ConditionInputs :
          LET r == prt_add_condition(prt, c)
          IN /\ prt' = r.doc
             /\ prt_call' = [op |-> "add_condition", arg |-> c, exc |-> r.exc, pre |-> prt]
    /\ UNCHANGED <<prt_file, prt_built>>
    /\ UNCHANGED not_prt

PrtClear ==
    /\ prt' = prt_clear
    /\ prt_call' = [op |-> "clear", arg |-> "", exc |-> "none", pre |-> prt]
    /\ prt_built' = TRUE
    /\ UNCHANGED prt_file
    /\ UNCHANGED not_prt

PrtSave ==
    /\ LET r == prt_save(prt)
       IN /\ prt_file' = File(r.text)
          /\ prt_call' = [op |-> "save", arg |-> "", exc |-> r.exc, pre |-> prt]
    /\ UNCHANGED <<prt, prt_built>>
    /\ UNCHANGED not_prt

PrtLoad ==
    /\ \E r \in {prt_load(prt, prt_file)} :
          /\ Len(r.doc.conditions) <= MaxConditions
          /\ prt' = r.doc
          /\ prt_call' = [op |-> "load", arg |-> "", exc |-> r.exc, pre |-> prt]
    /\ prt_built' = FALSE
    /\ UNCHANGED prt_file
    /\ UNCHANGED not_prt

\* StimulationProtocol(time_units=u)
PrtNew ==
    /\ \E u \in {"Volumes", "msec"} :
          /\ prt' = prt_new_units(u)
          /\ prt_call' = [op |-> "new", arg |-> u, exc |-> "none", pre |-> prt]
    /\ prt_built' = TRUE
    /\ UNCHANGED prt_file
    /\ UNCHANGED not_prt

PrtConvertToMsec ==
    /\ \E tr \in TrInputs :
          \E r \in {prt_convert_to_msec(prt, tr)} :
             /\ prt_within_time(r.doc)
             /\ prt' = r.doc
             /\ prt_call' = [op |-> "convert_to_msec", arg |-> tr, exc |-> r.exc,
                             pre |-> prt]
    /\ UNCHANGED <<prt_file, prt_built>>
    /\ UNCHANGED not_prt

\* reading StimulationProtocol.event_list
PrtReadEvents ==
    /\ prt_call' = [op |-> "event_list", arg |-> "", exc |-> "none", pre |-> prt,
                    out |-> prt_event_list(prt)]
    /\ UNCHANGED <<prt, prt_file, prt_built>>
    /\ UNCHANGED not_prt

\* reading event_onsets, event_durations, condition_onsets and
\* condition_durations
PrtReadDurations ==
    /\ \E r \in {prt_read_durations(prt)} :
          prt_call' = [op |-> "durations", arg |-> "", exc |-> r.exc, pre |-> prt,
                       out |-> r]
    /\ UNCHANGED <<prt, prt_file, prt_built>>
    /\ UNCHANGED not_prt

\* a + b for conditions that are held or newly made
PrtSum ==
    /\ \E a, b \in ConditionInputs \cup {prt.conditions[i] : i \in 1..Len(prt.conditions)} :
          \E r \in {prt_condition_add(a, b)} :
             prt_call' = [op |-> "__add__", arg |-> <<a, b>>, exc |-> r.exc,
                          pre |-> prt, out |-> r]
    /\ UNCHANGED <<prt, prt_file, prt_built>>
    /\ UNCHANGED not_prt

\* a text without its last line: a file whose writing or copying ended
\* early
CutLastLine(text) ==
    Join("", SubSeq(ReadLines(text), 1, Len(ReadLines(text)) - 1))

RECURSIVE CutLines(_, _)
\* a text without its last k lines
CutLines(text, k) == IF k = 0 THEN text ELSE CutLines(CutLastLine(text), k - 1)

\* save, after which the file loses up to MaxCut of its last lines
PrtSaveCut ==
    /\ \E k \in 1..MaxCut :
          \E r \in {prt_save(prt)} :
             /\ prt_file' = File(CutLines(r.text, k))
             /\ prt_call' = [op |-> "save", arg |-> k, exc |-> r.exc, pre |-> prt]
    /\ UNCHANGED <<prt, prt_built>>
    /\ UNCHANGED not_prt

(***************************************************************************)
(* Files that carry a header key the library has no default for, as        *)
(* another program writes them.                                            *)
(***************************************************************************)
UnknownKeyLine == LJust("Extra:", PrtKeyWidth) \o "7" \o "\n"

\* the known keys in front of which the unknown key's line stands
KeyPlaceInputs == {"ResolutionOfTime", "TimeCourseThick", "NrOfConditions"}

\* a text with a line put in front of its first line that starts with p
InsertLineBefore(text, p, line) ==
    LET placed(lines, at) ==
            Join("", SubSeq(lines, 1, at) \o <<line>> \o SubSeq(lines, at + 1, Len(lines)))
        found(lines) == placed(lines, FirstLineWith(lines, p, 0))
    IN found(ReadLines(text))

\* save, and the file is given the unknown key's line
PrtSaveWithKey ==
    /\ \E place \in KeyPlaceInputs :
          \E r \in {prt_save(prt)} :
             /\ r.exc = "none"
             /\ prt_file' = File(InsertLineBefore(r.text, place, UnknownKeyLine))
             /\ prt_call' = [op |-> "save", arg |-> place, exc |-> r.exc, pre |-> prt]
    /\ UNCHANGED <<prt, prt_built>>
    /\ UNCHANGED not_prt

(***************************************************************************)
(* Protocol files written by another program, with conditions that have    *)
(* no events.                                                              *)
(***************************************************************************)
\* the text of the .prt file of a version 2 protocol of these conditions
prt_written(conditions) ==
    prt_save([header |-> Put(prt_clear.header, "NrOfConditions",
                             IntV(Len(conditions))),
              conditions |-> conditions]).text

PrtEventFileInputs ==
    LET A == Condition("A", <<<<1, 2>>, <<3, 10>>>>, <<255, 0, 0>>)
        Z == Condition("Z", <<>>, <<0, 0, 255>>)
    IN {File(prt_written(<<A>>)), File(prt_written(<<Z>>)),
        File(prt_written(<<A, Z>>)), File(prt_written(<<Z, A>>))}

\* a file written by another program is put in place of the one held
PrtPutFile ==
    /\ \E f \in PrtEventFileInputs : prt_file' = f
    /\ prt_call' = [op |-> "put_file", arg |-> "", exc |-> "none", pre |-> prt]
    /\ UNCHANGED <<prt, prt_built>>
    /\ UNCHANGED not_prt

(***************************************************************************)
(* voi: volume-of-interest definitions.                                    *)
(***************************************************************************)
\* VOI(name, data, colour), data a list of coordinates, colour a list
VOI(name, data, colour) ==
    [name |-> name, data |-> data, colour |-> SubSeq(colour, 1, Min(3, Len(colour)))]

VoiInputs ==
    {VOI("V1", <<<<1, 2, 3>>>>, <<255, 0, 0>>),
     VOI("V2", <<<<10, 20, 30>>, <<11, 20, 30>>>>, <<0, 255, 0>>)}

VtcInputs == {"a.vtc", "b.vtc"}

\* VOIsDefinition.clear
voi_clear ==
    [header |-> << <<"FileVersion", IntV(4)>>,
                   <<"ReferenceSpace", StrV("BV")>>,
                   <<"OriginalVMRResolutionX", IntV(1)>>,
                   <<"OriginalVMRResolutionY", IntV(1)>>,
                   <<"OriginalVMRResolutionZ", IntV(1)>>,
                   <<"OriginalVMROffsetX", IntV(0)>>,
                   <<"OriginalVMROffsetY", IntV(0)>>,
                   <<"OriginalVMROffsetZ", IntV(0)>>,
                   <<"OriginalVMRFramingCubeDim", IntV(256)>>,
                   <<"LeftRightConvention", IntV(1)>>,
                   <<"SubjectVOINamingConvention", StrV("<VOI>_<SUBJ>")>> >>,
     vois |-> <<>>,
     vtcs |-> <<>>]

\* the column _format_header and _format_vois pad the keys to
VoiKeyWidth == 29

\* the column load cuts a header line at
VoiCutColumn == 27

\* VOIsDefinition._format_header
voi_format_header(d) ==
    Join("", [i \in 1..Len(d.header) |->
        (IF d.header[i][1] \in {"FileVersion", "OriginalVMRResolutionX",
                                "LeftRightConvention", "SubjectVOINamingConvention"}
         THEN "\n" ELSE "")
        \o (IF d.header[i][1] = "NrOfVOIs" THEN "\n\n" ELSE "")
        \o LJust(d.header[i][1] \o ":", VoiKeyWidth) \o FormatValue(d.header[i][2])
        \o (IF i - 1 < Len(d.header) - 1 THEN "\n" ELSE "")
        \o (IF i - 1 = 0 THEN "\n" ELSE "")])

\* VOI._format_colour
voi_format_colour(v) ==
    "ColorOfVOI: " \o Join(" ", [i \in 1..Len(v.colour) |-> Str(v.colour[i])])

\* VOI._format_data
voi_format_data(v) ==
    Join("\n", [i \in 1..Len(v.data) |->
        Join(" ", [j \in 1..Len(v.data[i]) |-> Str(v.data[i][j])])])

\* VOI.__str__
voi_str(v) ==
    "NameOfVOI:  " \o v.name \o "\n" \o voi_format_colour(v) \o "\n\n"
    \o "NrOfVoxels: " \o Str(Len(v.data)) \o "\n" \o voi_format_data(v)

\* VOIsDefinition._format_vois
voi_format_vois(d) ==
    LJust("NrOfVOIs", VoiKeyWidth) \o Str(Len(d.vois)) \o "\n\n"
    \o Join("\n\n", [i \in 1..Len(d.vois) |-> voi_str(d.vois[i])])

\* VOIsDefinition._format_vtcs
voi_format_vtcs(d) ==
    "NrOfVOIVTCs: " \o Str(Len(d.vtcs)) \o Join("\n", d.vtcs)

\* VOIsDefinition.save: the text written
voi_save(d) ==
    voi_format_header(d) \o "\n" \o "\n\n" \o voi_format_vois(d) \o "\n" \o "\n\n"
    \o voi_format_vtcs(d)

\* VOIsDefinition.add_voi
voi_add_voi(d, v) == [d EXCEPT !.vois = Append(d.vois, v)]

\* VOIsDefinition.add_vtc
voi_add_vtc(d, vtc) == [d EXCEPT !.vtcs = Append(d.vtcs, vtc)]

RECURSIVE voi_load_header(_, _)
\* the header loop of VOIsDefinition.load
voi_load_header(h, lines) ==
    LET typed(raw) == IF IsInt(raw) THEN IntV(ToInt(raw)) ELSE StrV(raw)
        set(line) ==
            IF Strip(line) = "" THEN h
            ELSE Put(h, StripChars(Slice(line, 0, VoiCutColumn), {":", " "}),
                     typed(Split(Strip(SliceFrom(line, VoiCutColumn)), " ")[1]))
    IN IF Len(lines) = 0 THEN h
       ELSE voi_load_header(set(lines[1]), Tail(lines))

\* s.split(":")[1].strip(), when s holds a colon
AfterColon(s) == Strip(Split(s, ":")[2])
HasColon(s) == FindFrom(s, ":", 0) >= 0

RECURSIVE voi_load_rows(_, _, _, _)
\* the coordinates of lines[x] for x in range(start, end)
voi_load_rows(lines, x, end, data) ==
    LET next(tokens) ==
            IF \E i \in 1..Len(tokens) : ~IsInt(tokens[i]) THEN [exc |-> "ValueError"]
            ELSE voi_load_rows(lines, x + 1, end,
                    Append(data, [i \in 1..Len(tokens) |-> ToInt(tokens[i])]))
    IN IF x >= end THEN [exc |-> "none", data |-> data]
       ELSE IF x >= Len(lines) THEN [exc |-> "IndexError"]
       ELSE next(Tokens(lines[x + 1]))

\* the try block of load for the VOI whose name line is lines[idx]
voi_load_block(d, lines, idx) ==
    LET \* from "self.add_voi" on
        rowed(colour, rows) ==
            IF rows.exc # "none" THEN [doc |-> d, exc |-> rows.exc]
            ELSE [doc |-> voi_add_voi(d,
                     VOI(AfterColon(lines[idx + 1]), rows.data,
                         [i \in 1..Len(colour) |-> ToInt(colour[i])])),
                  exc |-> "none"]
        \* from "start = idx + 4" on
        counted(colour, nvoxels) ==
            IF ~IsInt(nvoxels) THEN [doc |-> d, exc |-> "ValueError"]
            ELSE rowed(colour, voi_load_rows(lines, idx + 4,
                                             idx + 4 + ToInt(nvoxels), <<>>))
        \* from "nvoxels = ..." on
        coloured(colour) ==
            IF \E i \in 1..Len(colour) : ~IsInt(colour[i])
            THEN [doc |-> d, exc |-> "ValueError"]
            ELSE IF idx + 3 >= Len(lines) THEN [doc |-> d, exc |-> "IndexError"]
            ELSE IF ~HasColon(lines[idx + 4]) THEN [doc |-> d, exc |-> "IndexError"]
            ELSE counted(colour, AfterColon(lines[idx + 4]))
    IN IF ~HasColon(lines[idx + 1]) THEN [doc |-> d, exc |-> "IndexError"]
       ELSE IF idx + 1 >= Len(lines) THEN [doc |-> d, exc |-> "IndexError"]
       ELSE IF ~HasColon(lines[idx + 2]) THEN [doc |-> d, exc |-> "IndexError"]
       ELSE coloured(Split(AfterColon(lines[idx + 2]), " "))

RECURSIVE voi_load_vois(_, _, _)
\* the VOI loop of load from lines[idx] on: the definition, the index the
\* loop ends with and the exception that ended it
voi_load_vois(d, lines, idx) ==
    LET next(b) ==
            IF b.exc \in {"none", "IndexError"} THEN voi_load_vois(b.doc, lines, idx + 1)
            ELSE [doc |-> b.doc, idx |-> idx, exc |-> b.exc]
    IN IF idx >= Len(lines) THEN [doc |-> d, idx |-> idx - 1, exc |-> "none"]
       ELSE IF StartsWith(lines[idx + 1], "NrOfVOIVTCs")
       THEN [doc |-> d, idx |-> idx, exc |-> "none"]
       ELSE IF StartsWith(lines[idx + 1], "NameOfVOI")
       THEN next(voi_load_block(d, lines, idx))
       ELSE voi_load_vois(d, lines, idx + 1)

\* the VTC loop of load: every line after lines[idx], stripped
voi_load_vtcs(d, lines, idx) ==
    [d EXCEPT !.vtcs = d.vtcs \o [i \in 1..(Len(lines) - idx - 1) |->
                                     Strip(lines[idx + 1 + i])]]

\* VOIsDefinition.load, from "for line in lines[:counter-1]" on
voi_load_from(lines, counter) ==
    LET done(r) ==
            IF r.exc # "none" THEN [doc |-> r.doc, exc |-> r.exc]
            ELSE [doc |-> voi_load_vtcs(r.doc, lines, r.idx), exc |-> "none"]
    IN done(voi_load_vois(
               [voi_clear EXCEPT !.header =
                   voi_load_header(voi_clear.header, SliceTo(lines, counter - 1))],
               lines, counter + 1))

\* VOIsDefinition.load
voi_load(d, f) ==
    LET read(lines) ==
            IF Len(lines) = 0 THEN [doc |-> voi_clear, exc |-> "UnboundLocalError"]
            ELSE voi_load_from(lines, FirstLineWith(lines, "NrOfVOIs", 0))
    IN IF ~f.exists THEN [doc |-> voi_clear, exc |-> "IOError"]
       ELSE read(Dedupe(ReadLines(f.text)))

\* VOIsDefinition(load=f): any exception of load is raised as IOError
voi_new(f) ==
    LET made(r) == [doc |-> r.doc, exc |-> IF r.exc = "none" THEN "none" ELSE "IOError"]
    IN made(voi_load(voi_clear, f))

VoiAddVoi ==
    /\ Len(voi.vois) < MaxVois
    /\ \E v \in VoiInputs :
          /\ voi' = voi_add_voi(voi, v)
          /\ voi_call' = [op |-> "add_voi", arg |-> v, exc |-> "none", pre |-> voi]
    /\ UNCHANGED <<voi_file, voi_built>>
    /\ UNCHANGED not_voi

VoiAddVtc ==
    /\ Len(voi.vtcs) < MaxVtcs
    /\ \E v \in VtcInputs :
          /\ voi' = voi_add_vtc(voi, v)
          /\ voi_call' = [op |-> "add_vtc", arg |-> v, exc |-> "none", pre |-> voi]
    /\ UNCHANGED <<voi_file, voi_built>>
    /\ UNCHANGED not_voi

VoiClear ==
    /\ voi' = voi_clear
    /\ voi_call' = [op |-> "clear", arg |-> "", exc |-> "none", pre |-> voi]
    /\ voi_built' = TRUE
    /\ UNCHANGED voi_file
    /\ UNCHANGED not_voi

VoiSave ==
    /\ voi_file' = File(voi_save(voi))
    /\ voi_call' = [op |-> "save", arg |-> "", exc |-> "none", pre |-> voi]
    /\ UNCHANGED <<voi, voi_built>>
    /\ UNCHANGED not_voi

VoiLoad ==
    /\ \E r \in {voi_load(voi, voi_file)} :
          /\ voi' = r.doc
          /\ voi_call' = [op |-> "load", arg |-> "", exc |-> r.exc, pre |-> voi]
    /\ voi_built' = FALSE
    /\ UNCHANGED voi_file
    /\ UNCHANGED not_voi

\* save, after which the file loses up to MaxCut of its last lines
VoiSaveCut ==
    /\ \E k \in 1..MaxCut :
          /\ voi_file' = File(CutLines(voi_save(voi), k))
          /\ voi_call' = [op |-> "save", arg |-> k, exc |-> "none", pre |-> voi]
    /\ UNCHANGED <<voi, voi_built>>
    /\ UNCHANGED not_voi

(***************************************************************************)
(* File names: the path each save opens.                                   *)
(***************************************************************************)
UpperLetters == "ABCDEFGHIJKLMNOPQRSTUVWXYZ"
LowerLetters == "abcdefghijklmnopqrstuvwxyz"

\* c.lower() for one character
LowerChar(c) ==
    LET i == FindFrom(UpperLetters, c, 0)
    IN IF i < 0 THEN c ELSE CharAt(LowerLetters, i)

RECURSIVE LowerFrom(_, _)
LowerFrom(s, i) ==
    IF i >= Len(s) THEN "" ELSE LowerChar(CharAt(s, i)) \o LowerFrom(s, i + 1)

\* s.lower()
Lower(s) == LowerFrom(s, 0)

RECURSIVE RFindTo(_, _, _)
\* s.rfind(c) for a one-character c, searched downwards from index i; -1 when absent
RFindTo(s, c, i) ==
    IF i < 0 THEN -1
    ELSE IF CharAt(s, i) = c THEN i ELSE RFindTo(s, c, i - 1)

RFind(s, c) == RFindTo(s, c, Len(s) - 1)

RECURSIVE SkipDots(_, _, _)
\* the loop of os.path.splitext over the leading dots of the file's name:
\* whether a character other than "." stands in p[i:dot]
SkipDots(p, i, dot) ==
    IF i >= dot THEN FALSE
    ELSE IF CharAt(p, i) # "." THEN TRUE ELSE SkipDots(p, i + 1, dot)

\* os.path.splitext(p) with "/" as the separator
splitext(p) ==
    LET sepIndex == RFind(p, "/")
        dotIndex == RFind(p, ".")
    IN IF dotIndex > sepIndex /\ SkipDots(p, sepIndex + 1, dotIndex)
       THEN <<SliceTo(p, dotIndex), SliceFrom(p, dotIndex)>>
       ELSE <<p, "">>

\* the file name save would open if it compared the extension as written
save_filename_as_written(filename, ext) ==
    IF ~(splitext(filename)[2] = ext) THEN filename \o ext ELSE filename

\* the first statement of every save: the file name that is opened
save_filename(filename, ext) ==
    IF ~(Lower(splitext(filename)[2]) = ext) THEN filename \o ext ELSE filename

FilenameInputs ==
    {"a", "a.prt", "a.PRT", "a.Mdm", "a.mdm", ".prt", "..mdm", "a.prt/b", "a.mdm.prt", "a.prt."}

\* StimulationProtocol.save(filename)
PrtSaveAs ==
    /\ \E filename \in FilenameInputs :
          \E r \in {prt_save(prt)} :
             /\ prt_file' = File(r.text)
             /\ prt_call' = [op |-> "save", arg |-> filename, exc |-> r.exc, pre |-> prt,
                             out |-> save_filename(filename, ".prt")]
    /\ UNCHANGED <<prt, prt_built>>
    /\ UNCHANGED not_prt

\* mdm DesignMatrix.save(filename)
MdmSaveAs ==
    /\ \E filename \in FilenameInputs :
          /\ mdm_file' = File(mdm_save(mdm))
          /\ mdm_call' = [op |-> "save", arg |-> filename, exc |-> "none", pre |-> mdm,
                          out |-> save_filename(filename, ".mdm")]
    /\ UNCHANGED <<mdm, mdm_built>>
    /\ UNCHANGED not_mdm

\* the naming conventions VOIsDefinition is constructed with
VoiNamingInputs == {"<VOI>_<SUBJ>", "<SUBJ> <VOI>"}

\* VOIsDefinition(subject_voi_naming=naming)
voi_new_naming(naming) ==
    [voi_clear EXCEPT
        !.header = Put(voi_clear.header, "SubjectVOINamingConvention", StrV(naming))]

VoiNew ==
    /\ \E naming \in VoiNamingInputs :
          /\ voi' = voi_new_naming(naming)
          /\ voi_call' = [op |-> "new", arg |-> naming, exc |-> "none", pre |-> voi]
    /\ voi_built' = TRUE
    /\ UNCHANGED voi_file
    /\ UNCHANGED not_voi

(***************************************************************************)
(* Constructors that load a file.                                          *)
(***************************************************************************)
\* the names a constructor is given: "a" is the file held, "gone" is no file
LoadNameInputs == {"a", "gone"}

FileNamed(name, f) == IF name = "a" THEN f ELSE NoFile

\* the files StimulationProtocol(load=name) is given: an empty file, the
\* files of an empty protocol and of a protocol of one condition, whole and
\* cut short
PrtFileInputs ==
    LET one == prt_save(prt_add_condition(prt_clear,
                   Condition("A", <<<<1, 2>>, <<3, 10>>>>, <<255, 0, 0>>)).doc).text
    IN {File(""), File(prt_save(prt_clear).text)}
       \cup {File(CutLines(one, k)) : k \in 0..MaxCut}

\* the files VOIsDefinition(load=name) is given: an empty file, the files of
\* an empty definition and of a definition of one VOI, whole, cut short and
\* with a further line in the VOI's block
VoiFileInputs ==
    LET one == voi_save(voi_add_voi(voi_clear,
                   VOI("V1", <<<<1, 2, 3>>>>, <<255, 0, 0>>)))
    IN {File(""), File(voi_save(voi_clear)),
        File(InsertLineBefore(one, "NrOfVoxels", UnknownKeyLine))}
       \cup {File(CutLines(one, k)) : k \in 0..MaxCut}

\* the files sdm.DesignMatrix(load=name) is given: none, the files of an
\* empty matrix and of a matrix of one predictor, whole and cut short
SdmFileInputs ==
    LET one == sdm_save(sdm_add_predictor(sdm_clear,
                   Predictor("P", <<0, 1>>, <<255, 0, 0>>), FALSE).doc).text
    IN {NoFile, File(""), File(sdm_save(sdm_clear).text)}
       \cup {File(CutLines(one, k)) : k \in 0..MaxCut}

\* the message of the IOError the constructors raise
CouldNotRead(name) == "Could not read " \o name \o "!"

\* what a constructor call leaves: the object it worked on, and the
\* exception with its message
Constructed(name, r) ==
    [arg |-> name, doc |-> r.doc, exc |-> r.exc,
     out |-> IF r.exc = "none" THEN "" ELSE CouldNotRead(name)]

\* the file named "a" holds f, and StimulationProtocol(load=name) is called
PrtConstruct ==
    /\ \E name \in LoadNameInputs : \E f \in PrtFileInputs :
          \E r \in {Constructed(name, prt_new(FileNamed(name, f)))} :
             /\ prt_file' = f
             /\ prt' = r.doc
             /\ prt_call' = [op |-> "construct", arg |-> name, exc |-> r.exc,
                             pre |-> prt_clear, out |-> r.out]
    /\ prt_built' = FALSE
    /\ UNCHANGED not_prt

\* the file named "a" holds f, and VOIsDefinition(load=name) is called
VoiConstruct ==
    /\ \E name \in LoadNameInputs : \E f \in VoiFileInputs :
          \E r \in {Constructed(name, voi_new(FileNamed(name, f)))} :
             /\ voi_file' = f
             /\ voi' = r.doc
             /\ voi_call' = [op |-> "construct", arg |-> name, exc |-> r.exc,
                             pre |-> voi_clear, out |-> r.out]
    /\ voi_built' = FALSE
    /\ UNCHANGED not_voi

(***************************************************************************)
(* Specifications: one per document type.                                  *)
(***************************************************************************)
NoCall == [op |-> "init", arg |-> "", exc |-> "none", pre |-> ""]

Init ==
    /\ ctr = ctr_clear
    /\ ctr_file = NoFile
    /\ ctr_call = NoCall
    /\ mdm = mdm_clear
    /\ mdm_file = NoFile
    /\ mdm_call = NoCall
    /\ mdm_built = TRUE
    /\ sdm = sdm_clear
    /\ sdm_disk = NoFile
    /\ sdm_call = NoCall
    /\ sdm_log = <<>>
    /\ prt = prt_clear
    /\ prt_file = NoFile
    /\ prt_call = NoCall
    /\ prt_built = TRUE
    /\ voi = voi_clear
    /\ voi_file = NoFile
    /\ voi_call = NoCall
    /\ voi_built = TRUE

CtrNext == CtrAddContrast \/ CtrClear \/ CtrSave \/ CtrPutFile \/ CtrLoad
MdmNext == MdmAddStudy \/ MdmClear \/ MdmSave \/ MdmLoad

SpecCtr == Init /\ [][CtrNext]_vars
SpecMdm == Init /\ [][MdmNext]_vars

SdmNext == SdmAddPredictor \/ SdmAddConfoundPredictor \/ SdmAddConstant \/ SdmClear
SpecSdm == Init /\ [][SdmNext]_vars

\* the sdm DesignMatrix with its files, on small matrices
SdmIOAdd ==
    /\ Len(sdm.predictors) <= MaxFilePredictors
    /\ Get(sdm.header, "NrOfPredictors").v <= MaxFilePredictors
    /\ (SdmAddPredictor \/ SdmAddConfoundPredictor \/ SdmAddConstant)

SdmIONext == SdmIOAdd \/ SdmClear \/ SdmSave \/ SdmLoad
SpecSdmIO == Init /\ [][SdmIONext]_vars

PrtNext == PrtAddCondition \/ PrtClear \/ PrtSave \/ PrtLoad
SpecPrt == Init /\ [][PrtNext]_vars

\* protocols in either time unit, built and converted without files
PrtUnitsNext ==
    PrtNew \/ PrtAddCondition \/ PrtConvertToMsec \/ PrtReadEvents \/ PrtReadDurations
SpecPrtUnits == Init /\ [][PrtUnitsNext]_vars

\* VOI definitions and files that lost their last lines
VoiCutNext == VoiAddVoi \/ VoiSaveCut \/ VoiLoad
SpecVoiCut == Init /\ [][VoiCutNext]_vars

\* protocols and files that lost their last lines
PrtCutNext == PrtAddCondition \/ PrtSaveCut \/ PrtLoad
SpecPrtCut == Init /\ [][PrtCutNext]_vars

\* sums of the conditions of protocols built by add_condition
PrtSumNext == PrtAddCondition \/ PrtSum
SpecPrtSum == Init /\ [][PrtSumNext]_vars

VoiNext == VoiAddVoi \/ VoiAddVtc \/ VoiClear \/ VoiSave \/ VoiLoad
SpecVoi == Init /\ [][VoiNext]_vars

\* documents saved under file names with and without the extension
SaveAsNext == MdmAddStudy \/ MdmSaveAs \/ PrtSaveAs
SpecSaveAs == Init /\ [][SaveAsNext]_vars

\* protocols and files with a header key unknown to the library
PrtKeysNext == PrtAddCondition \/ PrtSaveWithKey \/ PrtLoad
SpecPrtKeys == Init /\ [][PrtKeysNext]_vars

\* constructors given files that are whole, cut short or missing
ConstructNext == PrtConstruct \/ VoiConstruct
SpecConstruct == Init /\ [][ConstructNext]_vars

\* design matrices of many studies, saved
MdmManyNext == MdmAddAnother \/ MdmClear \/ MdmSave
SpecMdmMany == Init /\ [][MdmManyNext]_vars

\* protocols loaded from files of conditions with and without events
PrtEventsNext == PrtPutFile \/ PrtAddCondition \/ PrtClear \/ PrtLoad
SpecPrtEvents == Init /\ [][PrtEventsNext]_vars

\* VOI definitions constructed with a naming convention, saved and loaded
VoiNamesNext == VoiNew \/ VoiAddVoi \/ VoiSave \/ VoiLoad
SpecVoiNames == Init /\ [][VoiNamesNext]_vars

(***************************************************************************)
(* Claims about ContrastsDefinition.                                       *)
(***************************************************************************)
CtrNr(d) == Get(d.header, "NrOfContrasts")
CtrNrOfValues(d) == Get(d.header, "NrOfValues")

\* C2: after a successful add_contrast(c), c is the last element of
\* contrasts, and NrOfContrasts equals the number of contrasts held.
C2_AddContrastAppends ==
    /\ IsIntV(CtrNr(ctr), Len(ctr.contrasts))
    /\ (ctr_call.op = "add_contrast" /\ ctr_call.exc = "none")
          => /\ Len(ctr.contrasts) > 0
             /\ ctr.contrasts[Len(ctr.contrasts)] = ctr_call.arg

\* C8: add_contrast sets NrOfValues to the length of the first contrast
\* added and keeps it afterwards; a later add_contrast whose data length
\* differs from NrOfValues raises ValueError and leaves NrOfContrasts,
\* NrOfValues and the contrasts list unchanged.
C8_ContrastLengthEnforced ==
    ctr_call.op = "add_contrast" =>
       LET pre == ctr_call.pre
           n == Len(ctr_call.arg.data)
       IN /\ IsIntV(CtrNr(pre), 0) =>
                /\ ctr_call.exc = "none"
                /\ IsIntV(CtrNrOfValues(ctr), n)
                /\ IsIntV(CtrNr(ctr), 1)
          /\ (~IsIntV(CtrNr(pre), 0) /\ ~IsIntV(CtrNrOfValues(pre), n)) =>
                /\ ctr_call.exc = "ValueError"
                /\ CtrNr(ctr) = CtrNr(pre)
                /\ CtrNrOfValues(ctr) = CtrNrOfValues(pre)
                /\ ctr.contrasts = pre.contrasts
          /\ (~IsIntV(CtrNr(pre), 0) /\ IsIntV(CtrNrOfValues(pre), n)) =>
                /\ ctr_call.exc = "none"
                /\ CtrNrOfValues(ctr) = CtrNrOfValues(pre)
                /\ IsIntV(CtrNr(ctr), CtrNr(pre).v + 1)

\* a contrast of another length was refused after a first one was accepted
C8_Witness ==
    /\ ctr_call.op = "add_contrast"
    /\ ctr_call.exc = "ValueError"
    /\ IsIntV(CtrNr(ctr), 2)
    /\ IsIntV(CtrNrOfValues(ctr), 2)
    /\ Len(ctr_call.arg.data) = 1

(***************************************************************************)
(* Claims about the mdm DesignMatrix.                                      *)
(***************************************************************************)
MdmNr(d) == Get(d.header, "NrOfStudies")
MdmType(d) == Get(d.header, "TypeOfFunctionalData")

\* C3: an mdm DesignMatrix built from empty by n >= 0 add_study calls,
\* saved and loaded into a new DesignMatrix, loads without error, gives the
\* same header and the same studies in the same order, and saving the loaded
\* matrix reproduces the file byte for byte.
C3_MdmRoundTrip ==
    mdm_built =>
       LET text == mdm_save(mdm)
           r == mdm_new(File(text))
       IN /\ r.exc = "none"
          /\ r.doc.header = mdm.header
          /\ r.doc.studies = mdm.studies
          /\ mdm_save(r.doc) = text

\* C9: add_study of a two-file study on a matrix holding single-file
\* studies, and of a single-file study on a matrix holding two-file studies,
\* raises ValueError and leaves NrOfStudies, TypeOfFunctionalData and the
\* studies list unchanged.
C9_MixedStudyRefused ==
    (mdm_call.op = "add_study" =>
       LET pre == mdm_call.pre
           k == Len(mdm_call.arg.data_files)
       IN (\E i \in 1..Len(pre.studies) : Len(pre.studies[i].data_files) # k) =>
             /\ mdm_call.exc = "ValueError"
             /\ MdmNr(mdm) = MdmNr(pre)
             /\ MdmType(mdm) = MdmType(pre)
             /\ mdm.studies = pre.studies)

\* C10: in every state reachable by add_study, clear and load of saved
\* files, all held studies have the same number of data files,
\* TypeOfFunctionalData is VTC when they have one and MTC when they have two,
\* and NrOfStudies equals the number of studies held.
C10_MdmInvariant ==
    /\ \A i, j \in 1..Len(mdm.studies) :
          Len(mdm.studies[i].data_files) = Len(mdm.studies[j].data_files)
    /\ \A i \in 1..Len(mdm.studies) :
          /\ Len(mdm.studies[i].data_files) = 1 => IsStrV(MdmType(mdm), "VTC")
          /\ Len(mdm.studies[i].data_files) = 2 => IsStrV(MdmType(mdm), "MTC")
    /\ IsIntV(MdmNr(mdm), Len(mdm.studies))

(***************************************************************************)
(* Claims about the sdm DesignMatrix.                                      *)
(***************************************************************************)
SdmNr(d) == Get(d.header, "NrOfPredictors")
SdmPoints(d) == Get(d.header, "NrOfDataPoints")
SdmOfKind(kind) ==
    LET l == SelectSeq(sdm_log, LAMBDA e : e.kind = kind)
    IN [i \in 1..Len(l) |-> l[i].predictor]

\* C6: after add_predictor, add_confound_predictor and at most one
\* add_constant on an empty matrix, predictors holds the non-confound
\* predictors in the order added, then the confound predictors in the order
\* added, then the constant; FirstConfoundPredictor is 1 plus the number of
\* non-confound predictors and NrOfPredictors is the length of the list.
C6_PredictorOrder ==
    Len(SdmOfKind("constant")) <= 1 =>
       /\ sdm.predictors = SdmOfKind("predictor") \o SdmOfKind("confound")
                              \o SdmOfKind("constant")
       /\ IsIntV(Get(sdm.header, "FirstConfoundPredictor"),
                 1 + Len(SdmOfKind("predictor")))
       /\ IsIntV(SdmNr(sdm), Len(sdm.predictors))

\* predictors and confounds were added on both sides of add_constant
C6_Witness ==
    /\ Len(sdm_log) = 4
    /\ sdm_log[1].kind = "confound"
    /\ sdm_log[2].kind = "constant"
    /\ sdm_log[3].kind = "confound"
    /\ sdm_log[4].kind = "predictor"
    /\ sdm_log[1].predictor # sdm_log[3].predictor
    /\ sdm.predictors = <<sdm_log[4].predictor, sdm_log[1].predictor,
                          sdm_log[3].predictor, sdm_log[2].predictor>>

\* C7: every held predictor's length equals NrOfDataPoints; add_predictor
\* with a predictor of another length when NrOfPredictors > 0 raises
\* ValueError and leaves the header and the predictors list unchanged.
C7_PredictorLengthEnforced ==
    /\ \A i \in 1..Len(sdm.predictors) :
          IsIntV(SdmPoints(sdm), Len(sdm.predictors[i].data))
    /\ (/\ sdm_call.op \in {"add_predictor", "add_confound_predictor"}
        /\ SdmNr(sdm_call.pre).v > 0
        /\ ~IsIntV(SdmPoints(sdm_call.pre), Len(sdm_call.arg.data)))
          => /\ sdm_call.exc = "ValueError"
             /\ sdm = sdm_call.pre

\* a predictor of one data point was refused by a matrix of two-point ones
C7_Witness ==
    /\ sdm_call.op = "add_predictor"
    /\ sdm_call.exc = "ValueError"
    /\ Len(sdm_call.arg.data) = 1
    /\ Len(sdm.predictors) = 2
    /\ IsIntV(SdmPoints(sdm), 2)

(***************************************************************************)
(* Claims about StimulationProtocol and VOIsDefinition files.              *)
(***************************************************************************)
\* C4: a StimulationProtocol built by add_condition calls, saved and loaded
\* into a new StimulationProtocol, gives the same header and the same
\* conditions in the same order, and saving the loaded protocol reproduces
\* the file byte for byte.
C4_PrtRoundTrip ==
    prt_built =>
       LET saved == prt_save(prt)
           r == prt_load(prt_clear, File(saved.text))
       IN /\ saved.exc = "none"
          /\ r.exc = "none"
          /\ r.doc.header = prt.header
          /\ r.doc.conditions = prt.conditions
          /\ prt_save(r.doc).text = saved.text

\* C5: a VOIsDefinition built by add_voi and add_vtc calls, saved and loaded
\* into a new VOIsDefinition, gives the same VOIs in the same order and the
\* same list of VTC paths in the same order.
C5_VoiRoundTrip ==
    voi_built =>
       LET r == voi_load(voi_clear, File(voi_save(voi)))
       IN /\ r.exc = "none"
          /\ r.doc.vois = voi.vois
          /\ r.doc.vtcs = voi.vtcs

(***************************************************************************)
(* Claims about load of every document type.                               *)
(***************************************************************************)
\* C1: for every document type, after load returns successfully the header
\* and body are those of a freshly constructed document that loaded the same
\* file: nothing held or set before the call survives.
C1_LoadReplaces ==
    /\ (ctr_call.op = "load" /\ ctr_call.exc = "none")
          => ctr = ctr_load(ctr_clear, ctr_file).doc
    /\ (sdm_call.op = "load" /\ sdm_call.exc = "none")
          => sdm = sdm_load(sdm_clear, sdm_disk, SdmColLength).doc
    /\ (mdm_call.op = "load" /\ mdm_call.exc = "none")
          => mdm = mdm_load(mdm_clear, mdm_file).doc
    /\ (prt_call.op = "load" /\ prt_call.exc = "none")
          => prt = prt_load(prt_clear, prt_file).doc
    /\ (voi_call.op = "load" /\ voi_call.exc = "none")
          => voi = voi_load(voi_clear, voi_file).doc

\* whether every condition of a list has rows of n columns
AllColumns(conditions, n) ==
    \A i \in 1..Len(conditions) :
       HasColumns(conditions[i].data) /\ Columns(conditions[i].data) = n

\* whether the first conditions of after are those of before, each row
\* with its onset and offset and a weight of one
WithUnitWeights(before, after) ==
    /\ Len(after) >= Len(before)
    /\ \A i \in 1..Len(before) :
          /\ after[i].name = before[i].name
          /\ after[i].colour = before[i].colour
          /\ Len(after[i].data) = Len(before[i].data)
          /\ \A j \in 1..Len(before[i].data) :
                after[i].data[j] = <<before[i].data[j][1], before[i].data[j][2], 1>>

\* what add_condition leaves when a weighted condition met unweighted ones,
\* and what adding an unweighted condition next leaves
RetrofitDone(before, after, add(_, _)) ==
    /\ after.exc = "none"
    /\ WithUnitWeights(before.conditions, after.doc.conditions)
    /\ IsIntV(Get(after.doc.header, "FileVersion"), 3)
    /\ IsIntV(Get(after.doc.header, "ParametricWeights"), 1)
    /\ \A c \in ConditionInputs :
          Columns(c.data) = 2 =>
             LET r == add(after.doc, c)
             IN /\ r.exc = "none"
                /\ Len(r.doc.conditions) = Len(after.doc.conditions) + 1
                /\ WithUnitWeights(<<c>>, <<r.doc.conditions[Len(r.doc.conditions)]>>)

\* C11: add_condition with a 3-column condition on a protocol whose
\* conditions have 2 columns gives each of them a third column of ones
\* with onsets and offsets as they were, sets FileVersion to 3 and
\* ParametricWeights to 1, and a 2-column condition added next gains a
\* third column of ones; in the brainvoyagertools module and in the prt
\* package alike
C11_ColumnRetrofit ==
    (/\ prt_call.op = "add_condition"
     /\ HasColumns(prt_call.arg.data)
     /\ Columns(prt_call.arg.data) = 3
     /\ AllColumns(prt_call.pre.conditions, 2))
    => /\ prt_call.exc = "none"
       /\ RetrofitDone(prt_call.pre, [doc |-> prt, exc |-> prt_call.exc],
                       prt_add_condition)
       /\ RetrofitDone(prt_call.pre, prt0_add_condition(prt_call.pre, prt_call.arg),
                       prt0_add_condition)

\* a weighted condition was added to a protocol holding an unweighted one
C11_Witness ==
    /\ prt_call.op = "add_condition"
    /\ Columns(prt_call.arg.data) = 3
    /\ Len(prt_call.pre.conditions) > 0
    /\ AllColumns(prt_call.pre.conditions, 2)
    /\ AllColumns(prt.conditions, 3)

\* C12: in every state of a protocol reached by add_condition and load
\* calls, the held conditions all have the same number of columns, all 2
\* or all 3
C12_UniformColumns ==
    AllColumns(prt.conditions, 2) \/ AllColumns(prt.conditions, 3)

\* the time units a protocol's header names
PrtUnits(d) == Get(d.header, "ResolutionOfTime")

\* C13: convert_to_msec(tr) is idempotent: for every protocol and every
\* tr, applying it twice leaves the header and every condition's rows as
\* applying it once does, and on a protocol whose time units are msec
\* already it changes nothing
C13_ConvertIdempotent ==
    /\ \A tr \in TrInputs :
          LET twice(once) == prt_convert_to_msec(once.doc, tr) = once
          IN twice(prt_convert_to_msec(prt, tr))
    /\ (prt_call.op = "convert_to_msec" /\ PrtUnits(prt_call.pre) = StrV("msec"))
       => prt_call.exc = "none" /\ prt = prt_call.pre

\* convert_to_msec was called on a protocol in msec that holds conditions
C13_Witness ==
    /\ prt_call.op = "convert_to_msec"
    /\ PrtUnits(prt_call.pre) = StrV("msec")
    /\ Len(prt_call.pre.conditions) > 0

\* C14: on a protocol in Volumes, convert_to_msec(tr) replaces every
\* onset by (onset - 1) * tr and every offset by offset * tr, sets
\* ResolutionOfTime to msec and leaves the weights, the names, the
\* colours, the order of the conditions and the rest of the header as
\* they were
C14_ConvertToMsec ==
    (prt_call.op = "convert_to_msec" /\ PrtUnits(prt_call.pre) = StrV("Volumes"))
    => /\ prt_call.exc = "none"
       /\ Len(prt.conditions) = Len(prt_call.pre.conditions)
       /\ \A i \in 1..Len(prt_call.pre.conditions) :
             /\ prt.conditions[i].name = prt_call.pre.conditions[i].name
             /\ prt.conditions[i].colour = prt_call.pre.conditions[i].colour
             /\ Len(prt.conditions[i].data) = Len(prt_call.pre.conditions[i].data)
             /\ \A j \in 1..Len(prt_call.pre.conditions[i].data) :
                   LET old == prt_call.pre.conditions[i].data[j]
                       new == prt.conditions[i].data[j]
                   IN /\ Len(new) = Len(old)
                      /\ new[1] = (old[1] - 1) * prt_call.arg
                      /\ new[2] = old[2] * prt_call.arg
                      /\ \A k \in 3..Len(old) : new[k] = old[k]
       /\ PrtUnits(prt) = StrV("msec")
       /\ Len(prt.header) = Len(prt_call.pre.header)
       /\ \A i \in 1..Len(prt.header) :
             /\ prt.header[i][1] = prt_call.pre.header[i][1]
             /\ prt.header[i][1] # "ResolutionOfTime"
                => prt.header[i][2] = prt_call.pre.header[i][2]

\* a protocol in Volumes holding a weighted condition and another one was
\* converted
C14_Witness ==
    /\ prt_call.op = "convert_to_msec"
    /\ PrtUnits(prt_call.pre) = StrV("Volumes")
    /\ Len(prt_call.pre.conditions) = 2
    /\ \E i \in 1..2 : prt_call.pre.conditions[i].name = "W"

\* how many entries of a list equal x
Count(list, x) == Cardinality({i \in 1..Len(list) : list[i] = x})

\* C15: event_list, read in any state, holds exactly one event, the name
\* of the condition followed by the row, for every interval of every held
\* condition, in the order of non-decreasing onsets, conditions added
\* since an earlier read included
C15_EventList ==
    prt_call.op = "event_list"
    => /\ Len(prt_call.out) = Len(prt_events(prt))
       /\ \A i \in 1..Len(prt.conditions) :
             \A j \in 1..Len(prt.conditions[i].data) :
                LET e == <<prt.conditions[i].name>> \o prt.conditions[i].data[j]
                IN Count(prt_call.out, e) = Count(prt_events(prt), e)
       /\ \A i \in 1..Len(prt_call.out) :
             \E k \in 1..Len(prt.conditions) :
                \E j \in 1..Len(prt.conditions[k].data) :
                   prt_call.out[i] = <<prt.conditions[k].name>> \o prt.conditions[k].data[j]
       /\ \A i \in 1..Len(prt_call.out) - 1 :
             prt_call.out[i][2] <= prt_call.out[i + 1][2]

\* the events of two conditions were read, the later condition holding
\* the earliest onset
C15_Witness ==
    /\ prt_call.op = "event_list"
    /\ Len(prt.conditions) = 2
    /\ prt.conditions[2].data[1][1] < prt.conditions[1].data[1][1]
    /\ prt_call.out[1][1] = prt.conditions[2].name

\* offset - onset in msec, offset - onset + 1 in Volumes
Lasting(d, onset, offset) ==
    IF PrtUnits(d) = StrV("msec") THEN offset - onset
    ELSE IF PrtUnits(d) = StrV("Volumes") THEN offset - onset + 1
    ELSE 0 - 1

\* C16: condition_durations and event_durations give offset - onset for
\* every interval when the time units are msec and offset - onset + 1 when
\* they are Volumes, in the order of condition_onsets and event_onsets
C16_Durations ==
    prt_call.op = "durations"
    => /\ prt_call.exc = "none"
       /\ Len(prt_call.out.condition_durations) = Len(prt.conditions)
       /\ Len(prt_call.out.condition_onsets) = Len(prt.conditions)
       /\ \A i \in 1..Len(prt.conditions) :
             /\ Len(prt_call.out.condition_durations[i]) = Len(prt.conditions[i].data)
             /\ Len(prt_call.out.condition_onsets[i]) = Len(prt.conditions[i].data)
             /\ \A j \in 1..Len(prt.conditions[i].data) :
                   /\ prt_call.out.condition_onsets[i][j] = prt.conditions[i].data[j][1]
                   /\ prt_call.out.condition_durations[i][j] =
                         Lasting(prt, prt.conditions[i].data[j][1],
                                 prt.conditions[i].data[j][2])
       /\ Len(prt_call.out.event_durations) = Len(prt_event_list(prt))
       /\ Len(prt_call.out.event_onsets) = Len(prt_event_list(prt))
       /\ \A k \in 1..Len(prt_event_list(prt)) :
             /\ prt_call.out.event_onsets[k] = prt_event_list(prt)[k][2]
             /\ prt_call.out.event_durations[k] =
                   Lasting(prt, prt_event_list(prt)[k][2], prt_event_list(prt)[k][3])

\* the durations of a protocol in Volumes were read: the intervals (1, 2)
\* and (3, 10) last 2 and 8 volumes
C16_Witness ==
    /\ prt_call.op = "durations"
    /\ PrtUnits(prt) = StrV("Volumes")
    /\ Len(prt.conditions) = 2
    /\ prt.conditions[2].data = <<<<1, 2>>, <<3, 10>>>>
    /\ prt_call.out.condition_durations[2] = <<2, 8>>

\* C17: a + b is a condition named a.name + "+" + b.name whose rows are
\* exactly the rows of a and the rows of b, each kept intact, ordered by
\* onset, and whose colour is the sum of the two colours, entry by entry,
\* capped at 255; stated for conditions of equally many columns
C17_ConditionSum ==
    (/\ prt_call.op = "__add__"
     /\ Columns(prt_call.arg[1].data) = Columns(prt_call.arg[2].data))
    => /\ prt_call.exc = "none"
       /\ prt_call.out.condition.name
             = prt_call.arg[1].name \o "+" \o prt_call.arg[2].name
       /\ Len(prt_call.out.condition.data)
             = Len(prt_call.arg[1].data) + Len(prt_call.arg[2].data)
       /\ \A n \in 1..2 :
             \A j \in 1..Len(prt_call.arg[n].data) :
                Count(prt_call.out.condition.data, prt_call.arg[n].data[j])
                = Count(prt_call.arg[1].data \o prt_call.arg[2].data,
                        prt_call.arg[n].data[j])
       /\ \A i \in 1..Len(prt_call.out.condition.data) - 1 :
             prt_call.out.condition.data[i][1] <= prt_call.out.condition.data[i + 1][1]
       /\ \A i \in 1..3 :
             prt_call.out.condition.colour[i]
             = Min(prt_call.arg[1].colour[i] + prt_call.arg[2].colour[i], 255)

\* whether fewer lines follow line c than the n rows it declares
RowsMissing(lines, c, n) == c > 0 /\ Len(lines) - c < n

\* the last line that satisfies a test, 0 when there is none
LastLine(lines, Test(_)) ==
    IF \E i \in 1..Len(lines) : Test(lines[i])
    THEN CHOOSE i \in 1..Len(lines) :
            Test(lines[i]) /\ \A j \in (i + 1)..Len(lines) : ~Test(lines[j])
    ELSE 0

\* whether a .prt text ends before the rows its last count line declares:
\* a count line is the one line of a block that is a single whole number
PrtRowsMissing(text) ==
    LET IsCount(line) == Len(Tokens(line)) = 1 /\ IsInt(Tokens(line)[1])
        cut(lines) ==
            LET c == LastLine(lines, IsCount)
            IN c > 0 /\ RowsMissing(lines, c, ToInt(Tokens(lines[c])[1]))
    IN cut(SelectSeq([i \in 1..Len(ReadLines(text)) |-> Strip(ReadLines(text)[i])],
                     LAMBDA line : line # ""))

\* whether a .voi text ends before the rows its last NrOfVoxels line
\* declares
VoiRowsMissing(text) ==
    LET IsCount(line) == StartsWith(line, "NrOfVoxels:") /\ IsInt(AfterColon(line))
        cut(lines) ==
            LET c == LastLine(lines, IsCount)
            IN c > 0 /\ RowsMissing(lines, c, ToInt(AfterColon(lines[c])))
    IN cut(ReadLines(text))

\* C18: loading a .prt or .voi file in which a condition or VOI block ends
\* before the number of rows its count line declares fails with an error,
\* it never completes
C18_TruncatedBlockRefused ==
    /\ (prt_call.op = "load" /\ prt_file.exists /\ PrtRowsMissing(prt_file.text))
       => prt_call.exc # "none"
    /\ (voi_call.op = "load" /\ voi_file.exists /\ VoiRowsMissing(voi_file.text))
       => voi_call.exc # "none"

\* C19: when load raises, the document afterwards is either the document
\* before the call or the cleared document with the default header and no
\* records; it holds nothing read from the file before the failure
C19_FailedLoadLeavesNoTrace ==
    /\ (prt_call.op = "load" /\ prt_call.exc # "none")
       => prt = prt_call.pre \/ prt = prt_clear
    /\ (sdm_call.op = "load" /\ sdm_call.exc # "none")
       => sdm = sdm_call.pre \/ sdm = sdm_clear

\* C20: add_constant on a matrix holding predictors of length n appends,
\* as the last predictor, a predictor named Constant of n ones, sets
\* IncludesConstant to 1, increases NrOfPredictors by one and leaves
\* FirstConfoundPredictor unchanged; the data matrix then has one more
\* column, all ones
C20_AddConstant ==
    (sdm_call.op = "add_constant" /\ Len(sdm_call.pre.predictors) > 0)
    => /\ sdm_call.exc = "none"
       /\ Len(sdm.predictors) = Len(sdm_call.pre.predictors) + 1
       /\ SubSeq(sdm.predictors, 1, Len(sdm_call.pre.predictors))
             = sdm_call.pre.predictors
       /\ sdm.predictors[Len(sdm.predictors)].name = "Constant"
       /\ sdm.predictors[Len(sdm.predictors)].data
             = [i \in 1..Len(sdm_call.pre.predictors[1].data) |-> 1]
       /\ IsIntV(Get(sdm.header, "IncludesConstant"), 1)
       /\ IsIntV(SdmNr(sdm), SdmNr(sdm_call.pre).v + 1)
       /\ Get(sdm.header, "FirstConfoundPredictor")
             = Get(sdm_call.pre.header, "FirstConfoundPredictor")
       /\ sdm_data(sdm).exc = "none"
       /\ Len(sdm_data(sdm).rows) = Len(sdm_call.pre.predictors[1].data)
       /\ \A r \in 1..Len(sdm_data(sdm).rows) :
             /\ Len(sdm_data(sdm).rows[r]) = Len(sdm_call.pre.predictors) + 1
             /\ sdm_data(sdm).rows[r][Len(sdm_call.pre.predictors) + 1] = 1
             /\ SubSeq(sdm_data(sdm).rows[r], 1, Len(sdm_call.pre.predictors))
                   = sdm_data(sdm_call.pre).rows[r]

\* a constant was added to a matrix of two rows that holds a predictor
\* and a confound predictor
C20_Witness ==
    /\ sdm_call.op = "add_constant"
    /\ sdm_call.exc = "none"
    /\ Len(sdm_call.pre.predictors) >= 2
    /\ Len(sdm_call.pre.predictors[1].data) = 2
    /\ Get(sdm_call.pre.header, "FirstConfoundPredictor").v
          <= Len(sdm_call.pre.predictors)

(***************************************************************************)
(* Claims about file names.                                                *)
(***************************************************************************)
\* the last component of a path
Basename(p) == SliceFrom(p, RFind(p, "/") + 1)

RECURSIVE LStripDots(_)
LStripDots(s) == IF StartsWith(s, ".") THEN LStripDots(SliceFrom(s, 1)) ELSE s

\* the extension of a path: what follows the name proper in its last
\* component, from the last dot on; a component of dots and a name has none
Extension(p) ==
    LET name == LStripDots(Basename(p))
        parts == Split(name, ".")
    IN IF Len(parts) < 2 THEN "" ELSE "." \o parts[Len(parts)]

RECURSIVE SameIgnoringCase(_, _)
SameIgnoringCase(a, b) ==
    IF Len(a) # Len(b) THEN FALSE
    ELSE IF Len(a) = 0 THEN TRUE
    ELSE /\ \/ CharAt(a, 0) = CharAt(b, 0)
            \/ \E i \in 0..25 :
                  /\ {CharAt(a, 0), CharAt(b, 0)}
                        = {CharAt(UpperLetters, i), CharAt(LowerLetters, i)}
         /\ SameIgnoringCase(SliceFrom(a, 1), SliceFrom(b, 1))

SavedWhere(filename, ext, path) ==
    IF SameIgnoringCase(Extension(filename), ext) THEN path = filename
    ELSE path = filename \o ext

FormatExtensions == {".ctr", ".mdm", ".sdm", ".prt", ".voi"}

\* C21: save(filename) opens filename itself when the extension of filename is
\* the format's extension in any mix of upper and lower case, and filename
\* followed by the format's lower-case extension otherwise; the document held
\* is the same after save as before.
C21_SaveExtension ==
    /\ (prt_call.op = "save" /\ prt_call.arg \in FilenameInputs) =>
          /\ SavedWhere(prt_call.arg, ".prt", prt_call.out)
          /\ prt_file.exists
          /\ prt = prt_call.pre
    /\ (mdm_call.op = "save" /\ mdm_call.arg \in FilenameInputs) =>
          /\ SavedWhere(mdm_call.arg, ".mdm", mdm_call.out)
          /\ mdm_file.exists
          /\ mdm = mdm_call.pre
    /\ \A filename \in FilenameInputs : \A ext \in FormatExtensions :
          SavedWhere(filename, ext, save_filename(filename, ext))

\* a protocol saved under a name in upper case and a design matrix with a
\* study saved under a name without extension
C21_Witness ==
    /\ prt_call.op = "save" /\ prt_call.arg = "a.PRT" /\ prt_call.out = "a.PRT"
    /\ mdm_call.op = "save" /\ mdm_call.arg = "a.prt/b" /\ mdm_call.out = "a.prt/b.mdm"
    /\ Len(mdm.studies) > 0

(***************************************************************************)
(* Claims about header keys and values.                                    *)
(***************************************************************************)
\* the keys of header lines, in the order of the lines
LineKeys(lines) == [i \in 1..Len(lines) |-> Strip(Split1(lines[i], ":")[1])]

\* the keys of a header, in the order the header holds them
HeaderKeys(h) == [i \in 1..Len(h) |-> h[i][1]]

\* the header lines load reads from a text: the non-empty lines in front
\* of the NrOfConditions line
PrtHeaderLines(text) ==
    LET upto(lines) == SubSeq(lines, 1, FirstLineWith(lines, "NrOfConditions", 0))
    IN upto(prt_lines(text))

\* whether a stands in front of b in a list that holds both
Before(list, a, b) ==
    \E i, j \in 1..Len(list) : i < j /\ list[i] = a /\ list[j] = b

Holds(list, a) == \E i \in 1..Len(list) : list[i] = a

\* whether key has the same place in both lists relative to each key of
\* among that both hold
SamePlace(key, among, first, second) ==
    /\ Holds(first, key) /\ Holds(second, key)
    /\ \A i \in 1..Len(among) :
          (among[i] # key /\ Holds(first, among[i]) /\ Holds(second, among[i])) =>
             (Before(first, key, among[i]) <=> Before(second, key, among[i]))

\* C22: after a load that completed, the key Extra of the file, which no
\* default header holds, is in the header at the place it had in the file
\* relative to the other keys read from the file, and the header is written
\* with its keys in that order.
C22_UnknownKeyInPlace ==
    (/\ prt_call.op = "load" /\ prt_call.exc = "none"
     /\ Holds(LineKeys(PrtHeaderLines(prt_file.text)), "Extra")
     /\ ~HasKey(prt_call.pre.header, "Extra")) =>
       /\ SamePlace("Extra", LineKeys(PrtHeaderLines(prt_file.text)),
                    LineKeys(PrtHeaderLines(prt_file.text)), HeaderKeys(prt.header))
       /\ SamePlace("Extra", LineKeys(PrtHeaderLines(prt_file.text)),
                    LineKeys(PrtHeaderLines(prt_file.text)),
                    LineKeys(prt_lines(prt_format_header(prt))))

(***************************************************************************)
(* Claims about the constructors.                                          *)
(***************************************************************************)
\* whether a text holds a name
Names(text, name) == \E i \in 0..Len(text) : StartsWith(SliceFrom(text, i), name)

\* the outcome of a constructor call whose load of the file had outcome
\* loaded: no exception when the load had none, and otherwise an IOError
\* with a message that holds the file's name
OneIOError(call, loaded) ==
    IF loaded = "none" THEN call.exc = "none"
    ELSE call.exc = "IOError" /\ Names(call.out, call.arg)

\* C23: StimulationProtocol(load=f), VOIsDefinition(load=f) and
\* sdm DesignMatrix(load=f) raise an IOError whose message holds f whenever
\* the load of f fails (for the design matrix: with both column lengths),
\* whatever the load raised, and raise nothing otherwise.
C23_ConstructorIOError ==
    /\ prt_call.op = "construct" =>
          OneIOError(prt_call, prt_load(prt_clear, FileNamed(prt_call.arg, prt_file)).exc)
    /\ voi_call.op = "construct" =>
          OneIOError(voi_call, voi_load(voi_clear, FileNamed(voi_call.arg, voi_file)).exc)
    /\ \A name \in LoadNameInputs : \A f \in SdmFileInputs :
          OneIOError(Constructed(name, sdm_new(FileNamed(name, f))),
             IF sdm_load(sdm_clear, FileNamed(name, f), SdmColLength).exc = "none"
             THEN "none"
             ELSE sdm_load(sdm_clear, FileNamed(name, f), SdmColLengthMotion).exc)

\* a protocol and a VOI definition constructed from files whose load raises
\* something other than IOError
C23_Witness ==
    /\ prt_call.op = "construct" /\ prt_call.exc = "IOError"
    /\ prt_load(prt_clear, FileNamed(prt_call.arg, prt_file)).exc \notin {"none", "IOError"}
    /\ voi_call.op = "construct" /\ voi_call.exc = "IOError"
    /\ voi_load(voi_clear, FileNamed(voi_call.arg, voi_file)).exc \notin {"none", "IOError"}

(***************************************************************************)
(* Claims about what add_condition appends.                                *)
(***************************************************************************)
\* whether a held condition is the condition c as add_condition leaves it:
\* its name, colour and rows, the rows at most extended by a weight of 1
IsCondition(c, held) ==
    /\ held.name = c.name
    /\ held.colour = c.colour
    /\ \/ held.data = c.data
       \/ Columns(c.data) = 2 /\ held.data = AppendOnes(c.data)

\* the protocol after a successful add_condition(c) on the protocol before
AppendedLast(before, c, after) ==
    /\ Len(after.conditions) = Len(before.conditions) + 1
    /\ IsCondition(c, after.conditions[Len(after.conditions)])
    /\ \A i \in 1..Len(before.conditions) :
          IsCondition(before.conditions[i], after.conditions[i])
    /\ IsIntV(Get(after.header, "NrOfConditions"), Len(after.conditions))

\* C24: after a successful add_condition(c), of either prt module, the last
\* condition held is c, the conditions held before are in front of it in
\* their order, and NrOfConditions is the number of conditions held, for c
\* of 2 and of 3 columns and for an empty and a non-empty protocol.
C24_AddConditionAppends ==
    (prt_call.op = "add_condition" /\ prt_call.exc = "none") =>
       /\ AppendedLast(prt_call.pre, prt_call.arg, prt)
       /\ prt0_add_condition(prt_call.pre, prt_call.arg).exc = "none"
       /\ AppendedLast(prt_call.pre, prt_call.arg,
                       prt0_add_condition(prt_call.pre, prt_call.arg).doc)

(***************************************************************************)
(* Claims about the lines of a .mdm file.                                  *)
(***************************************************************************)
\* the line of one study: its paths in double quotes, a space between them
StudyLine(study) ==
    Join(" ", [i \in 1..(Len(study.data_files) + 1) |->
                 "\"" \o (IF i <= Len(study.data_files) THEN study.data_files[i]
                          ELSE study.sdm_file) \o "\""])

\* the lines of a text that begin with a double quote, without line breaks
QuotedLines(text) ==
    LET stripped(lines) == [i \in 1..Len(lines) |-> StripChars(lines[i], {"\n"})]
    IN SelectSeq(stripped(ReadLines(text)), LAMBDA line : StartsWith(line, "\""))

\* C25: the studies of a saved design matrix stand one on a line each: the
\* lines of the file that hold studies are the lines of the studies held,
\* for any number of studies.
C25_StudyOnItsLine ==
    mdm_call.op = "save" =>
       QuotedLines(mdm_file.text) = [i \in 1..Len(mdm.studies) |-> StudyLine(mdm.studies[i])]

(***************************************************************************)
(* Claims about the number of conditions a file declares.                  *)
(***************************************************************************)
\* the number a text declares on its NrOfConditions line
DeclaredConditions(text) ==
    LET declared(lines) ==
            ToInt(Strip(Split1(lines[FirstLineWith(lines, "NrOfConditions", 0) + 1],
                               ":")[2]))
    IN declared(ReadLines(text))

\* C26: after a load into a newly made protocol that completed without an
\* exception, the protocol holds as many conditions as the file declares
\* on its NrOfConditions line, conditions without events included.
C26_DeclaredConditionsHeld ==
    (/\ prt_call.op = "load" /\ prt_call.exc = "none"
     /\ prt_call.pre = prt_clear) =>
       Len(prt.conditions) = DeclaredConditions(prt_file.text)

(***************************************************************************)
(* Claims about the values of header lines.                                *)
(***************************************************************************)
\* raw values of header lines: a number, a word, a colour, several words
HeaderValueInputs == {"3", "Volumes", "0 0 80", "my experiment", "a 1"}

\* the value a raw header value stands for: the integer it spells; else,
\* when it has several tokens, the list of the integers they spell or,
\* when a token spells none, the whole raw value; else the raw value
TypedValue(raw) ==
    IF IsInt(raw) THEN IntV(ToInt(raw))
    ELSE IF Len(Tokens(raw)) > 1 /\ \A i \in 1..Len(Tokens(raw)) : IsInt(Tokens(raw)[i])
    THEN ListV([i \in 1..Len(Tokens(raw)) |-> ToInt(Tokens(raw)[i])])
    ELSE StrV(raw)

SameValue(x, y) == x.t = y.t /\ x.v = y.v

\* the header lines of a .voi text: the lines with a key in front of the
\* NrOfVOIs line
VoiHeaderLines(text) ==
    LET upto(lines) == SubSeq(lines, 1, FirstLineWith(lines, "NrOfVOIs", 0))
    IN SelectSeq(upto(ReadLines(text)), LAMBDA line : Strip(line) # "")

\* whether a header holds the value of a header line under the line's key
HoldsLine(h, line) ==
    /\ HasKey(h, Strip(Split1(line, ":")[1]))
    /\ SameValue(Get(h, Strip(Split1(line, ":")[1])),
                 TypedValue(Strip(Split1(line, ":")[2])))

\* C27: the loaders of .voi and .prt files store the value of a header line
\* as the integer it spells, else as the list of integers its several
\* tokens spell, else as the whole string; nothing of a value of several
\* words is lost.
C27_HeaderValueTyped ==
    /\ (voi_call.op = "load" /\ voi_call.exc = "none") =>
          \A i \in 1..Len(VoiHeaderLines(voi_file.text)) :
             HoldsLine(voi.header, VoiHeaderLines(voi_file.text)[i])
    /\ \A raw \in HeaderValueInputs :
          SameValue(prt_header_value(raw), TypedValue(raw))
    /\ \A raw \in HeaderValueInputs :
          /\ prt0_header_value(raw).exc = "none"
          /\ SameValue(prt0_header_value(raw).value, TypedValue(raw))

====
